---- MODULE Spec2Model ----
(***************************************************************************)
(* Verification model of the portfolio-optimization engine                 *)
(* (services/portfolio-optimizer.ts, class PortfolioOptimizerService).     *)
(*                                                                         *)
(* JavaScript numbers are modelled as exact rationals extended with the    *)
(* three non-finite IEEE-754 values NaN, +Infinity and -Infinity, so that  *)
(* a division by zero or a comparison with NaN behaves as it does in the   *)
(* program.  Rounding error of double arithmetic is not modelled.          *)
(***************************************************************************)
EXTENDS Integers, Sequences, FiniteSets, TLC

(***************************************************************************)
(* Numbers                                                                 *)
(***************************************************************************)
RECURSIVE Gcd(_, _)
Gcd(a, b) == IF b = 0 THEN a ELSE Gcd(b, a % b)

AbsInt(a) == IF a < 0 THEN -a ELSE a

NaN == [k |-> "nan", n |-> 0, d |-> 1]
PosInf == [k |-> "pinf", n |-> 0, d |-> 1]
NegInf == [k |-> "ninf", n |-> 0, d |-> 1]

\* The finite number a/b (b # 0), in lowest terms with a positive denominator.
Q(a, b) ==
  LET g == Gcd(AbsInt(a), AbsInt(b))
      s == IF b < 0 THEN -1 ELSE 1
  IN [k |-> "fin", n |-> s * (a \div g), d |-> s * (b \div g)]

Zero == Q(0, 1)
One == Q(1, 1)

IsFinite(x) == x.k = "fin"
IsNaN(x) == x.k = "nan"

\* -1, 0 or 1 for a number that is not NaN
Sign(x) ==
  CASE x.k = "pinf" -> 1
    [] x.k = "ninf" -> -1
    [] OTHER -> IF x.n > 0 THEN 1 ELSE IF x.n < 0 THEN -1 ELSE 0

InfOfSign(s) == IF s > 0 THEN PosInf ELSE NegInf

Neg(x) ==
  CASE x.k = "fin" -> [k |-> "fin", n |-> -x.n, d |-> x.d]
    [] x.k = "pinf" -> NegInf
    [] x.k = "ninf" -> PosInf
    [] OTHER -> NaN

\* x + y
Add(x, y) ==
  CASE IsNaN(x) \/ IsNaN(y) -> NaN
    [] IsFinite(x) /\ IsFinite(y) ->
         LET g == Gcd(x.d, y.d)
         IN Q(x.n * (y.d \div g) + y.n * (x.d \div g), (x.d \div g) * y.d)
    [] IsFinite(x) -> y
    [] IsFinite(y) -> x
    [] OTHER -> IF x.k = y.k THEN x ELSE NaN

\* x - y
Sub(x, y) == Add(x, Neg(y))

\* x * y
Mul(x, y) ==
  CASE IsNaN(x) \/ IsNaN(y) -> NaN
    [] IsFinite(x) /\ IsFinite(y) ->
         LET g1 == Gcd(AbsInt(x.n), y.d)
             g2 == Gcd(AbsInt(y.n), x.d)
         IN Q((x.n \div g1) * (y.n \div g2), (x.d \div g2) * (y.d \div g1))
    [] OTHER -> IF Sign(x) = 0 \/ Sign(y) = 0 THEN NaN
                ELSE InfOfSign(Sign(x) * Sign(y))

\* x / y; a zero divisor is +0
Div(x, y) ==
  CASE IsNaN(x) \/ IsNaN(y) -> NaN
    [] IsFinite(x) /\ IsFinite(y) ->
         IF y.n = 0
         THEN IF x.n = 0 THEN NaN ELSE InfOfSign(Sign(x))
         ELSE Mul(x, Q(y.d, y.n))
    [] IsFinite(x) -> Zero
    [] IsFinite(y) -> InfOfSign(Sign(x) * (IF Sign(y) < 0 THEN -1 ELSE 1))
    [] OTHER -> NaN

RECURSIVE FracLess(_, _, _, _)
\* a/b < c/d for b, d > 0, by comparing the continued-fraction expansions (no
\* product is formed)
FracLess(a, b, c, d) ==
  LET q1 == a \div b
      q2 == c \div d
      r1 == a % b
      r2 == c % d
  IN IF q1 # q2 THEN q1 < q2
     ELSE IF r2 = 0 THEN FALSE
     ELSE IF r1 = 0 THEN TRUE
     ELSE FracLess(d, r2, b, r1)

\* x < y (false when either is NaN)
Lt(x, y) ==
  CASE IsNaN(x) \/ IsNaN(y) -> FALSE
    [] IsFinite(x) /\ IsFinite(y) -> FracLess(x.n, x.d, y.n, y.d)
    [] x.k = "ninf" -> y.k # "ninf"
    [] y.k = "pinf" -> x.k # "pinf"
    [] OTHER -> FALSE

Gt(x, y) == Lt(y, x)
\* x <= y (false when either is NaN)
Le(x, y) == ~IsNaN(x) /\ ~IsNaN(y) /\ ~Lt(y, x)
Ge(x, y) == Le(y, x)

\* Math.abs
Abs(x) == IF IsNaN(x) THEN NaN ELSE IF Sign(x) < 0 THEN Neg(x) ELSE x

\* Math.max(x, y) and Math.min(x, y): NaN if either argument is NaN
Max(x, y) == IF IsNaN(x) \/ IsNaN(y) THEN NaN ELSE IF Lt(x, y) THEN y ELSE x
Min(x, y) == IF IsNaN(x) \/ IsNaN(y) THEN NaN ELSE IF Lt(y, x) THEN y ELSE x

\* Largest number of decimal places Sqrt keeps for a radicand that is not the
\* square of a rational.
SqrtDigits == 3

RECURSIVE Pow10(_)
Pow10(k) == IF k = 0 THEN 1 ELSE 10 * Pow10(k - 1)

\* the largest k <= max for which (q + 1) * 100^k stays below 2^31 (q >= 0)
RECURSIVE DigitsFor(_, _)
DigitsFor(q, max) ==
  IF max = 0 THEN 0
  ELSE IF max <= 4 /\ q < 2147483647 \div Pow10(2 * max) - 1 THEN max
  ELSE DigitsFor(q, max - 1)

RECURSIVE FloorScaled(_, _, _, _)
\* floor((q + r/d) * 10^k) for 0 <= r < d, by long division
FloorScaled(q, r, d, k) ==
  IF k = 0 THEN q
  ELSE FloorScaled(q * 10 + (r * 10) \div d, (r * 10) % d, d, k - 1)

RECURSIVE ISqrtIn(_, _, _)
ISqrtIn(m, lo, hi) ==
  IF lo = hi THEN lo
  ELSE LET mid == (lo + hi + 1) \div 2
       IN IF mid * mid <= m THEN ISqrtIn(m, mid, hi) ELSE ISqrtIn(m, lo, mid - 1)

\* largest integer whose square is at most m
ISqrt(m) == ISqrtIn(m, 0, 46340)

\* Math.sqrt: exact on squares of rationals, otherwise rounded down to
\* SqrtDigits decimal places (fewer for a large radicand); NaN for a negative
\* argument.
Sqrt(x) ==
  CASE IsNaN(x) \/ x.k = "ninf" -> NaN
    [] x.k = "pinf" -> PosInf
    [] OTHER ->
         IF x.n < 0 THEN NaN
         ELSE LET rn == ISqrt(x.n)
                  rd == ISqrt(x.d)
              IN IF rn * rn = x.n /\ rd * rd = x.d
                 THEN Q(rn, rd)
                 ELSE LET k == DigitsFor(x.n \div x.d, SqrtDigits)
                      IN Q(ISqrt(FloorScaled(x.n \div x.d, x.n % x.d, x.d, 2 * k)),
                           Pow10(k))

(***************************************************************************)
(* Objects keyed by symbol ({ [symbol: string]: number }) are functions    *)
(* whose domain is the set of keys; an assignment to an existing key       *)
(* overwrites it.                                                          *)
(***************************************************************************)
EmptyObj == [s \in {} |-> Zero]

\* obj[key] = val
Assign(obj, key, val) == (key :> val) @@ obj

\* obj[key] read as a number: a missing key reads undefined, which is NaN in
\* arithmetic
Get(obj, key) == IF key \in DOMAIN obj THEN obj[key] ELSE NaN

RECURSIVE SumOver(_, _)
\* sum of f[k] over the keys in S
SumOver(f, S) ==
  IF S = {} THEN Zero
  ELSE LET k == CHOOSE k \in S : TRUE
       IN Add(f[k], SumOver(f, S \ {k}))

\* Object.values(obj).reduce((sum, v) => sum + v, 0)
SumValues(obj) == SumOver(obj, DOMAIN obj)

RECURSIVE MinOver(_, _)
MinOver(f, S) ==
  LET k == CHOOSE k \in S : TRUE
  IN IF S = {k} THEN f[k] ELSE Min(f[k], MinOver(f, S \ {k}))

RECURSIVE MaxOver(_, _)
MaxOver(f, S) ==
  LET k == CHOOSE k \in S : TRUE
  IN IF S = {k} THEN f[k] ELSE Max(f[k], MaxOver(f, S \ {k}))

(***************************************************************************)
(* Constants of PortfolioOptimizerService                                  *)
(***************************************************************************)
RISK_FREE_RATE == Q(45, 1000)

\* Number of steps of the target-return sweep.  The service sweeps 100 steps;
\* the model sweeps this many, so that the weights stay exact fractions.
numPortfolios == 4

(***************************************************************************)
(* Efficient frontier                                                      *)
(***************************************************************************)

\* calculatePortfolioReturn: sum over the entries of weights
calculatePortfolioReturn(weights, expectedReturns) ==
  SumOver([s \in DOMAIN weights |-> Mul(weights[s], Get(expectedReturns, s))],
          DOMAIN weights)

RECURSIVE VarianceFrom(_, _, _, _)
\* the double loop of calculatePortfolioVariance, cell by cell, starting at
\* cell c (cells are numbered row by row from 0)
VarianceFrom(weights, covarianceMatrix, syms, c) ==
  LET n == Len(syms)
      i == (c \div n) + 1
      j == (c % n) + 1
  IN IF c >= n * n THEN Zero
     ELSE Add(Mul(Mul(Get(weights, syms[i]), Get(weights, syms[j])),
                  covarianceMatrix[i][j]),
              VarianceFrom(weights, covarianceMatrix, syms, c + 1))

calculatePortfolioVariance(weights, covarianceMatrix, syms) ==
  IF Len(syms) = 0 THEN Zero
  ELSE VarianceFrom(weights, covarianceMatrix, syms, 0)

\* a clip that forgets the upper bound
ClipLowerOnly(w) == Max(Zero, w)

\* Math.max(0, Math.min(1, w))
Clip01(w) == Max(Zero, Min(One, w))

twoAssetOptimization(expectedReturns, covarianceMatrix, syms, targetReturn) ==
  LET r1 == Get(expectedReturns, syms[1])
      r2 == Get(expectedReturns, syms[2])
      var1 == covarianceMatrix[1][1]
      var2 == covarianceMatrix[2][2]
      cov12 == covarianceMatrix[1][2]
      A == Sub(var2, cov12)
      C == Sub(Add(var1, var2), Mul(Q(2, 1), cov12))
      w1raw == IF Lt(Abs(Sub(r1, r2)), Q(1, 1000000))
               THEN Div(A, C)
               ELSE Div(Sub(targetReturn, r2), Sub(r1, r2))
      w1 == Clip01(w1raw)
      w2 == Sub(One, w1)
  IN Assign(Assign(EmptyObj, syms[1], w1), syms[2], w2)

\* scores[i] of multiAssetHeuristicOptimization (i counts from 1)
HeuristicScore(expectedReturns, covarianceMatrix, syms, i) ==
  LET excessReturn == Sub(Get(expectedReturns, syms[i]), RISK_FREE_RATE)
      variance == covarianceMatrix[i][i]
      sharpeRatio == IF Gt(variance, Zero)
                     THEN Div(excessReturn, Sqrt(variance))
                     ELSE Zero
  IN Max(Zero, sharpeRatio)

RECURSIVE SumScores(_, _, _, _)
\* scores.reduce((sum, score) => sum + score, 0) over scores[1..i]
SumScores(expectedReturns, covarianceMatrix, syms, i) ==
  IF i = 0 THEN Zero
  ELSE Add(SumScores(expectedReturns, covarianceMatrix, syms, i - 1),
           HeuristicScore(expectedReturns, covarianceMatrix, syms, i))

RECURSIVE BaseWeights(_, _, _, _, _)
\* the weights after the first i assignments weights[symbols[k]] = ... of the
\* normalisation step
BaseWeights(expectedReturns, covarianceMatrix, syms, totalScore, i) ==
  IF i = 0 THEN EmptyObj
  ELSE Assign(BaseWeights(expectedReturns, covarianceMatrix, syms, totalScore, i - 1),
              syms[i],
              IF totalScore = Zero
              THEN Q(1, Len(syms))
              ELSE Div(HeuristicScore(expectedReturns, covarianceMatrix, syms, i),
                       totalScore))

RECURSIVE ScaleWeights(_, _, _, _, _, _)
\* the loop "weights[symbol] *= 1 + adjustment * returnRatio" after i rounds
ScaleWeights(weights, expectedReturns, syms, adjustment, currentReturn, i) ==
  IF i = 0 THEN weights
  ELSE LET prev == ScaleWeights(weights, expectedReturns, syms, adjustment,
                                currentReturn, i - 1)
           returnRatio == Div(Get(expectedReturns, syms[i]), currentReturn)
       IN Assign(prev, syms[i],
                 Mul(Get(prev, syms[i]), Add(One, Mul(adjustment, returnRatio))))

RECURSIVE Renormalize(_, _, _, _)
\* the loop "weights[symbol] /= totalWeight" after i rounds
Renormalize(weights, syms, totalWeight, i) ==
  IF i = 0 THEN weights
  ELSE LET prev == Renormalize(weights, syms, totalWeight, i - 1)
       IN Assign(prev, syms[i], Div(Get(prev, syms[i]), totalWeight))

\* the heuristic without its guard |currentReturn - targetReturn| > 0.01: the
\* adjustment is applied at every target
HeuristicAlwaysAdjusting(expectedReturns, covarianceMatrix, syms, targetReturn) ==
  LET n == Len(syms)
      totalScore == SumScores(expectedReturns, covarianceMatrix, syms, n)
      weights == BaseWeights(expectedReturns, covarianceMatrix, syms, totalScore, n)
      currentReturn == calculatePortfolioReturn(weights, expectedReturns)
      adjustment == Div(Sub(targetReturn, currentReturn), currentReturn)
      scaled == ScaleWeights(weights, expectedReturns, syms, adjustment,
                             currentReturn, n)
  IN Renormalize(scaled, syms, SumValues(scaled), n)

multiAssetHeuristicOptimization(expectedReturns, covarianceMatrix, syms, targetReturn) ==
  LET n == Len(syms)
      totalScore == SumScores(expectedReturns, covarianceMatrix, syms, n)
      weights == BaseWeights(expectedReturns, covarianceMatrix, syms, totalScore, n)
      currentReturn == calculatePortfolioReturn(weights, expectedReturns)
  IN IF Gt(Abs(Sub(currentReturn, targetReturn)), Q(1, 100))
     THEN LET adjustment == Div(Sub(targetReturn, currentReturn), currentReturn)
              scaled == ScaleWeights(weights, expectedReturns, syms, adjustment,
                                     currentReturn, n)
              totalWeight == SumValues(scaled)
          IN Renormalize(scaled, syms, totalWeight, n)
     ELSE weights

meanVarianceOptimization(expectedReturns, covarianceMatrix, syms, targetReturn) ==
  IF Len(syms) = 2
  THEN twoAssetOptimization(expectedReturns, covarianceMatrix, syms, targetReturn)
  ELSE multiAssetHeuristicOptimization(expectedReturns, covarianceMatrix, syms,
                                       targetReturn)

\* the target return of sweep step i (0 .. numPortfolios)
TargetReturn(expectedReturns, i) ==
  LET minReturn == MinOver(expectedReturns, DOMAIN expectedReturns)
      maxReturn == MaxOver(expectedReturns, DOMAIN expectedReturns)
  IN Add(minReturn, Mul(Q(i, numPortfolios), Sub(maxReturn, minReturn)))

\* the point pushed by sweep step i of generateEfficientFrontier
FrontierPoint(expectedReturns, covarianceMatrix, syms, i) ==
  LET weights == meanVarianceOptimization(expectedReturns, covarianceMatrix, syms,
                                          TargetReturn(expectedReturns, i))
  IN [risk |-> Sqrt(calculatePortfolioVariance(weights, covarianceMatrix, syms)),
      return |-> calculatePortfolioReturn(weights, expectedReturns),
      weights |-> weights]

\* the comparator (a, b) => a.risk - b.risk is positive
RiskAfter(a, b) == Gt(Sub(a.risk, b.risk), Zero)

RECURSIVE InsertByRisk(_, _)
\* p placed into the risk-sorted sequence s behind every element that the
\* comparator does not order after it (a NaN difference orders nothing)
InsertByRisk(s, p) ==
  IF s = <<>> THEN <<p>>
  ELSE IF RiskAfter(s[Len(s)], p)
       THEN Append(InsertByRisk(SubSeq(s, 1, Len(s) - 1), p), s[Len(s)])
       ELSE Append(s, p)

RECURSIVE SortByRisk(_)
\* frontier.sort((a, b) => a.risk - b.risk): a stable sort.  When a risk is NaN
\* the comparator is inconsistent and the order the engine leaves is its own
\* choice; this is the order a stable insertion sort leaves.
SortByRisk(s) ==
  IF s = <<>> THEN <<>>
  ELSE InsertByRisk(SortByRisk(SubSeq(s, 1, Len(s) - 1)), s[Len(s)])

\* riskLevels[riskTolerance] || 0.16
TargetRisk(riskTolerance) ==
  CASE riskTolerance = "conservative" -> Q(12, 100)
    [] riskTolerance = "moderate" -> Q(16, 100)
    [] riskTolerance = "aggressive" -> Q(22, 100)
    [] riskTolerance = "very_aggressive" -> Q(30, 100)
    [] OTHER -> Q(16, 100)

\* the score findOptimalPortfolio gives a qualifying portfolio
PortfolioScore(portfolio, targetRisk) ==
  LET sharpeRatio == Div(Sub(portfolio.return, RISK_FREE_RATE), portfolio.risk)
      riskPenalty == Mul(Max(Zero, Sub(portfolio.risk, targetRisk)), Q(10, 1))
  IN Sub(sharpeRatio, riskPenalty)

RECURSIVE BestAfter(_, _, _)
\* [portfolio, score]: bestPortfolio and bestScore after the scan of the first
\* i points of the frontier
BestAfter(efficientFrontier, targetRisk, i) ==
  IF i = 0 THEN [portfolio |-> efficientFrontier[1], score |-> NegInf]
  ELSE LET prev == BestAfter(efficientFrontier, targetRisk, i - 1)
           portfolio == efficientFrontier[i]
           score == PortfolioScore(portfolio, targetRisk)
       IN IF Le(portfolio.risk, Mul(targetRisk, Q(11, 10))) /\ Gt(score, prev.score)
          THEN [portfolio |-> portfolio, score |-> score]
          ELSE prev

findOptimalPortfolio(efficientFrontier, riskTolerance) ==
  BestAfter(efficientFrontier, TargetRisk(riskTolerance),
            Len(efficientFrontier)).portfolio.weights

(***************************************************************************)
(* Inputs of the frontier builder                                          *)
(***************************************************************************)
\* the holdings' symbols: one, two or three distinct symbols, or one symbol held
\* in two lots
SymbolLists ==
  {<<"AAPL">>, <<"AAPL", "MSFT">>, <<"AAPL", "MSFT", "BND">>, <<"AAPL", "AAPL">>}

Range(s) == {s[i] : i \in DOMAIN s}

\* annual expected returns, in percent
ReturnGrid == {-20, 0, 20}

\* per-asset annual volatility by position, as a fraction
VolProfiles == {"zero", "flat", "rising"}
VolOf(profile, i) ==
  CASE profile = "zero" -> Zero
    [] profile = "flat" -> Q(1, 5)
    [] OTHER -> Q(i, 10)

\* pairwise correlation of distinct positions
Correlations == {0, 1}

\* the annualized covariance matrix of assets with the given volatilities and
\* one common correlation
CovarianceOf(n, profile, rho) ==
  [i \in 1..n |-> [j \in 1..n |->
     IF i = j THEN Mul(VolOf(profile, i), VolOf(profile, i))
     ELSE Mul(Q(rho, 1), Mul(VolOf(profile, i), VolOf(profile, j)))]]

RiskTolerances == {"conservative", "moderate", "aggressive", "very_aggressive"}

(***************************************************************************)
(* State.  Three groups of variables: the frontier builder and selector,   *)
(* the Monte Carlo simulator, and a single call of one of the remaining    *)
(* functions of the service.  A specification drives one group and leaves  *)
(* the others idle.                                                        *)
(***************************************************************************)
VARIABLES
  \* generateEfficientFrontier and findOptimalPortfolio
  symbols, expectedReturns, covarianceMatrix, riskTolerance,
  sweep, frontier, optimalWeights, pc,
  \* runAdvancedMonteCarloSimulation
  mcIn, mcPc, scenario, day, portfolioValue, results, mcOut,
  \* one call of a function: its name, arguments and return value
  fn, args, result

fvars == <<symbols, expectedReturns, covarianceMatrix, riskTolerance,
           sweep, frontier, optimalWeights, pc>>
mvars == <<mcIn, mcPc, scenario, day, portfolioValue, results, mcOut>>
cvars == <<fn, args, result>>

\* A request to the optimize-portfolio tool, from execute to its outcome, and
\* the market data service it reaches.  context is the tool's input; reqPc is
\* the position of the request; fetchIdx and history are the loop variable and
\* the historicalData array of getRealHistoricalData; provider is the index of
\* the provider whose fetchPrice is awaited (0: none); priceCache holds the
\* symbols with an unexpired entry in the service's PriceCache; lookups lists,
\* for each request, the settled price lookups; outcomes lists what the
\* requests have returned or thrown.
VARIABLES context, reqPc, fetchIdx, history, estimates, provider, priceCache, lookups, outcomes

rvars == <<context, reqPc, fetchIdx, history, estimates, provider, priceCache, lookups, outcomes>>

\* The MarketDataService called on its own.  primaryProvider is the index in
\* providers of the service's primaryProvider; pending holds the call of
\* getStockPrice that awaits a provider (none: <<>>); returned holds what the
\* last call returned or threw (none yet: <<>>).
VARIABLES primaryProvider, pending, returned

svars == <<primaryProvider, pending, returned>>
vars == <<fvars, mvars, cvars, rvars, svars>>

FrontierIdle ==
  /\ symbols = <<>>
  /\ expectedReturns = EmptyObj
  /\ covarianceMatrix = <<>>
  /\ riskTolerance = "moderate"
  /\ sweep = 0
  /\ frontier = <<>>
  /\ optimalWeights = EmptyObj
  /\ pc = "idle"

McIdle ==
  /\ mcIn = <<>>
  /\ mcPc = "idle"
  /\ scenario = 0
  /\ day = 0
  /\ portfolioValue = Zero
  /\ results = <<>>
  /\ mcOut = <<>>

CallIdle ==
  /\ fn = "idle"
  /\ args = <<>>
  /\ result = <<>>

RequestIdle ==
  /\ context = <<>>
  /\ reqPc = "idle"
  /\ fetchIdx = 0
  /\ history = <<>>
  /\ estimates = <<>>
  /\ provider = 0
  /\ priceCache = {}
  /\ lookups = <<>>
  /\ outcomes = <<>>
  /\ primaryProvider = 1
  /\ pending = <<>>
  /\ returned = <<>>

(***************************************************************************)
(* generateEfficientFrontier followed by findOptimalPortfolio              *)
(***************************************************************************)
Init ==
  /\ symbols \in SymbolLists
  /\ \E er \in [Range(symbols) -> ReturnGrid] :
       expectedReturns = [s \in Range(symbols) |-> Q(er[s], 100)]
  /\ \E profile \in VolProfiles, rho \in Correlations :
       covarianceMatrix = CovarianceOf(Len(symbols), profile, rho)
  /\ riskTolerance = "moderate"
  /\ sweep = 0
  /\ frontier = <<>>
  /\ optimalWeights = EmptyObj
  /\ pc = "sweep"
  /\ McIdle
  /\ CallIdle
  /\ RequestIdle

\* one round of the loop "for (let i = 0; i <= numPortfolios; i++)"
SweepStep ==
  /\ pc = "sweep"
  /\ sweep <= numPortfolios
  /\ frontier' = Append(frontier,
                        FrontierPoint(expectedReturns, covarianceMatrix, symbols, sweep))
  /\ sweep' = sweep + 1
  /\ UNCHANGED <<symbols, expectedReturns, covarianceMatrix, riskTolerance,
                 optimalWeights, pc, mvars, cvars, rvars, svars>>

\* return frontier.sort((a, b) => a.risk - b.risk)
SortFrontier ==
  /\ pc = "sweep"
  /\ sweep > numPortfolios
  /\ frontier' = SortByRisk(frontier)
  /\ pc' = "select"
  /\ UNCHANGED <<symbols, expectedReturns, covarianceMatrix, riskTolerance,
                 sweep, optimalWeights, mvars, cvars, rvars, svars>>

\* optimalWeights = this.findOptimalPortfolio(efficientFrontier, riskTolerance, ...)
SelectOptimal ==
  /\ pc = "select"
  /\ \E rt \in RiskTolerances :
       /\ riskTolerance' = rt
       /\ optimalWeights' = findOptimalPortfolio(frontier, rt)
  /\ pc' = "done"
  /\ UNCHANGED <<symbols, expectedReturns, covarianceMatrix, sweep, frontier,
                 mvars, cvars, rvars, svars>>

Next == SweepStep \/ SortFrontier \/ SelectOptimal

Spec == Init /\ [][Next]_vars

(***************************************************************************)
(* Properties of the frontier and of the selected weights                  *)
(***************************************************************************)
Tolerance == Q(1, 1000000)

\* the weights of w add up to 1 within 1e-6
SumsToOne(w) == Le(Abs(Sub(SumValues(w), One)), Tolerance)

\* every weight of w lies in [0, 1]
LongOnly(w) == \A s \in DOMAIN w : Le(Zero, w[s]) /\ Le(w[s], One)

\* C1: every weight vector the engine computes - the weights of every frontier
\* point and the optimal weights - sums to 1 within 1e-6.
C1_WeightsSumToOne ==
  /\ \A k \in DOMAIN frontier : SumsToOne(frontier[k].weights)
  /\ pc = "done" => SumsToOne(optimalWeights)

\* C2: every weight of every frontier point and of the optimal weights lies in
\* [0, 1].
C2_WeightsLongOnly ==
  /\ \A k \in DOMAIN frontier : LongOnly(frontier[k].weights)
  /\ pc = "done" => LongOnly(optimalWeights)

\* C3: the frontier returned by generateEfficientFrontier is sorted ascending by
\* risk: risk[k] <= risk[k+1] for consecutive points.
C3_FrontierSortedByRisk ==
  pc \in {"select", "done"} =>
    \A k \in 1..(Len(frontier) - 1) : Le(frontier[k].risk, frontier[k + 1].risk)

\* the point of a single-holding frontier: weight 1 for the sole asset, risk the
\* asset's volatility (the non-negative root of its variance), return its
\* expected return
SoleAssetPoint(p) ==
  /\ p.weights = (symbols[1] :> One)
  /\ Ge(p.risk, Zero)
  /\ Mul(p.risk, p.risk) = covarianceMatrix[1][1]
  /\ p.return = expectedReturns[symbols[1]]

\* C9 (as amended): for a single holding every point of the frontier is the
\* same point - weight 1, risk = volatility, return = expected return - and the
\* returned frontier holds numPortfolios + 1 of them.
C9_SingleHoldingFrontier ==
  Len(symbols) = 1 =>
    /\ \A k \in DOMAIN frontier : SoleAssetPoint(frontier[k])
    /\ pc \in {"select", "done"} => Len(frontier) = numPortfolios + 1

\* C9 as claimed: the returned frontier has exactly one element, which is that
\* point.
C9_SingleHoldingOneElement ==
  (Len(symbols) = 1 /\ pc \in {"select", "done"}) =>
    /\ Len(frontier) = 1
    /\ SoleAssetPoint(frontier[1])

\* a single-holding frontier of an asset with non-zero volatility has been
\* returned
C9_Witness ==
  /\ Len(symbols) = 1
  /\ pc = "done"
  /\ covarianceMatrix[1][1] # Zero
  /\ Len(frontier) = numPortfolios + 1
  /\ SoleAssetPoint(frontier[1])

\* the frontier points within the risk tolerance: risk <= targetRisk * 1.1
Qualifying ==
  {k \in DOMAIN frontier :
     Le(frontier[k].risk, Mul(TargetRisk(riskTolerance), Q(11, 10)))}

\* (return - riskFreeRate)/risk - max(0, risk - target) * 10 of frontier point k
ScoreOf(k) == PortfolioScore(frontier[k], TargetRisk(riskTolerance))

\* C11: whenever some frontier point has risk <= target * 1.1, the selected
\* weights are those of a qualifying point whose score is maximal among the
\* qualifying points, the first such point in frontier order.
C11_SelectsBestQualifying ==
  (pc = "done" /\ Qualifying # {}) =>
    \E k \in Qualifying :
      /\ optimalWeights = frontier[k].weights
      /\ \A j \in Qualifying : Ge(ScoreOf(k), ScoreOf(j))
      /\ \A j \in Qualifying : j < k => Gt(ScoreOf(k), ScoreOf(j))

\* C12: when no frontier point has risk <= target * 1.1 the selected weights
\* are those of the first point of the frontier, which no point undercuts in
\* risk; in every case the selected weights are those of some frontier point.
C12_FallbackLowestRisk ==
  pc = "done" =>
    /\ \E k \in DOMAIN frontier : optimalWeights = frontier[k].weights
    /\ Qualifying = {} =>
         /\ optimalWeights = frontier[1].weights
         /\ \A k \in DOMAIN frontier : Le(frontier[1].risk, frontier[k].risk)

\* max(0, (expectedReturn - riskFreeRate) / sqrt(variance)) of holding i, 0
\* for an asset without variance
SharpeLikeScore(i) ==
  LET variance == covarianceMatrix[i][i]
      sharpe == IF Gt(variance, Zero)
                THEN Div(Sub(expectedReturns[symbols[i]], RISK_FREE_RATE),
                         Sqrt(variance))
                ELSE Zero
  IN IF Gt(sharpe, Zero) THEN sharpe ELSE Zero

\* the scores normalized to sum 1, or 1/N each when all scores are zero
BaseWeighting ==
  LET N == Len(symbols)
      total == SumOver([i \in 1..N |-> SharpeLikeScore(i)], 1..N)
  IN [i \in 1..N |-> IF total = Zero THEN Q(1, N)
                     ELSE Div(SharpeLikeScore(i), total)]

\* the base weights nudged toward the target: each scaled by
\* 1 + adjustment * (assetReturn / current), then renormalized to sum 1
NudgedWeighting(target) ==
  LET N == Len(symbols)
      base == BaseWeighting
      current == SumOver([i \in 1..N |-> Mul(base[i], expectedReturns[symbols[i]])],
                         1..N)
      adjustment == Div(Sub(target, current), current)
      scaled == [i \in 1..N |->
                   Mul(base[i],
                       Add(One, Mul(adjustment,
                                    Div(expectedReturns[symbols[i]], current))))]
      total == SumOver(scaled, 1..N)
  IN IF Le(Abs(Sub(current, target)), Q(1, 100)) THEN base
     ELSE [i \in 1..N |-> Div(scaled[i], total)]

\* C26: for more than two assets and every target return of the sweep, the
\* weights are the base weights (scores normalized to sum 1, or 1/N each)
\* scaled by 1 + adjustment * (assetReturn / currentReturn) and renormalized
\* to sum 1 (left as they are when the base return is within 0.01 of the
\* target), and they are finite numbers also when the base return is 0 or the
\* scaled weights sum to 0.
C26_HeuristicWeights ==
  (Len(symbols) > 2 /\ pc = "sweep") =>
    \A k \in DOMAIN frontier :
      LET nudged == NudgedWeighting(TargetReturn(expectedReturns, k - 1))
      IN \A i \in DOMAIN symbols :
           /\ frontier[k].weights[symbols[i]] = nudged[i]
           /\ IsFinite(frontier[k].weights[symbols[i]])

(***************************************************************************)
(* runAdvancedMonteCarloSimulation                                         *)
(***************************************************************************)
\* The service simulates 1000 scenarios of 252 trading days; the model
\* simulates this many.  TRADING_DAYS is also the divisor that turns annual
\* figures into daily ones, as in the service.
MONTE_CARLO_SCENARIOS == 2
TRADING_DAYS == 1

RECURSIVE CholeskySum(_, _, _, _, _)
RECURSIVE CholeskyCell(_, _, _)
\* sum of L[i][k] * L[j][k] for k < m (rows and columns count from 1)
CholeskySum(matrix, i, j, m, k) ==
  IF k >= m THEN Zero
  ELSE Add(Mul(CholeskyCell(matrix, i, k), CholeskyCell(matrix, j, k)),
           CholeskySum(matrix, i, j, m, k + 1))

\* L[i][j] computed without the clamp of the pivot and without the test of
\* the pivot before the division
CholeskyCellUnguarded(matrix, i, j) ==
  IF j > i THEN Zero
  ELSE IF i = j
       THEN Sqrt(Sub(matrix[i][i], CholeskySum(matrix, i, i, j, 1)))
       ELSE Div(Sub(matrix[i][j], CholeskySum(matrix, i, j, j, 1)),
                CholeskyCell(matrix, j, j))

\* L[i][j] of choleskyDecomposition
CholeskyCell(matrix, i, j) ==
  IF j > i THEN Zero
  ELSE IF i = j
       THEN Sqrt(Max(Zero, Sub(matrix[i][i], CholeskySum(matrix, i, i, j, 1))))
       ELSE LET Ljj == CholeskyCell(matrix, j, j)
            IN IF Ljj # Zero
               THEN Div(Sub(matrix[i][j], CholeskySum(matrix, i, j, j, 1)), Ljj)
               ELSE Zero

choleskyDecomposition(matrix) ==
  [i \in 1..Len(matrix) |-> [j \in 1..Len(matrix) |-> CholeskyCell(matrix, i, j)]]

\* the values normalRandom is let to return: Box-Muller on Math.random can
\* return any real number, the model draws from these
NormalDraws == {Q(-1, 1), Q(1, 1)}

RECURSIVE CholeskyTransform(_, _, _, _)
\* sum of choleskyMatrix[i][j] * independentNormals[j] for j <= m
CholeskyTransform(choleskyMatrix, independentNormals, i, m) ==
  IF m = 0 THEN Zero
  ELSE Add(CholeskyTransform(choleskyMatrix, independentNormals, i, m - 1),
           Mul(choleskyMatrix[i][m], independentNormals[m]))

generateCorrelatedReturnsCholesky(syms, expReturns, choleskyMatrix, independentNormals) ==
  [i \in 1..Len(syms) |->
     LET dailyExpectedReturn == Div(Get(expReturns, syms[i]), Q(TRADING_DAYS, 1))
         dailyVolatility == Sqrt(Div(choleskyMatrix[i][i], Q(TRADING_DAYS, 1)))
     IN Add(dailyExpectedReturn,
            Mul(CholeskyTransform(choleskyMatrix, independentNormals, i, i),
                dailyVolatility))]

RECURSIVE DailyReturn(_, _, _, _)
\* dailyReturn += weights[symbol] * correlatedReturns[i] for the first i symbols
DailyReturn(weights, syms, correlatedReturns, i) ==
  IF i = 0 THEN Zero
  ELSE Add(DailyReturn(weights, syms, correlatedReturns, i - 1),
           Mul(Get(weights, syms[i]), correlatedReturns[i]))

RECURSIVE InsertAscending(_, _)
\* x placed into the sorted sequence s behind every element that the
\* comparator (a, b) => a - b does not order after it
InsertAscending(s, x) ==
  IF s = <<>> THEN <<x>>
  ELSE IF Gt(Sub(s[Len(s)], x), Zero)
       THEN Append(InsertAscending(SubSeq(s, 1, Len(s) - 1), x), s[Len(s)])
       ELSE Append(s, x)

RECURSIVE SortAscending(_)
\* results.sort((a, b) => a - b)
SortAscending(s) ==
  IF s = <<>> THEN <<>>
  ELSE InsertAscending(SortAscending(SubSeq(s, 1, Len(s) - 1)), s[Len(s)])

RECURSIVE SumRange(_, _, _)
\* s[lo] + ... + s[hi], summed by halves (the sum of exact fractions does not
\* depend on the grouping; a NaN or infinite term gives the same result in any
\* grouping)
SumRange(s, lo, hi) ==
  IF lo > hi THEN Zero
  ELSE IF lo = hi THEN s[lo]
  ELSE LET mid == (lo + hi) \div 2
       IN Add(SumRange(s, lo, mid), SumRange(s, mid + 1, hi))

\* s.reduce((sum, x) => sum + x, 0) over the first i elements of s
SumSeq(s, i) == SumRange(s, 1, i)

\* the percentile taken one place lower, at the nearest rank counted from 1
PercentileBelow(sorted, pct) ==
  sorted[IF (Len(sorted) * pct) \div 100 = 0 THEN 1 ELSE (Len(sorted) * pct) \div 100]

\* results[Math.floor(results.length * pct / 100)], the index counted from 0
Percentile(sorted, pct) == sorted[((Len(sorted) * pct) \div 100) + 1]

\* the object runAdvancedMonteCarloSimulation returns for the pushed results
MonteCarloSummary(res, initialValue) ==
  LET sorted == SortAscending(res)
      wins == Cardinality({k \in DOMAIN sorted : Gt(sorted[k], initialValue)})
  IN [scenarios |-> MONTE_CARLO_SCENARIOS,
      successRate |-> Div(Q(wins, 1), Q(Len(sorted), 1)),
      expectedFinalValue |-> Div(SumSeq(sorted, Len(sorted)), Q(Len(sorted), 1)),
      worstCase |-> Percentile(sorted, 5),
      bestCase |-> Percentile(sorted, 95),
      confidenceIntervals |->
        [percentile_5 |-> Percentile(sorted, 5),
         percentile_25 |-> Percentile(sorted, 25),
         percentile_75 |-> Percentile(sorted, 75),
         percentile_95 |-> Percentile(sorted, 95)]]

\* generateEfficientFrontier as a whole: the swept points, sorted
generateEfficientFrontier(expReturns, covMatrix, syms) ==
  SortByRisk([i \in 1..(numPortfolios + 1) |->
                FrontierPoint(expReturns, covMatrix, syms, i - 1)])

\* the arguments optimizePortfolio passes to the simulation: the optimal
\* weights it has selected, the returns and covariances they were selected
\* for, and the portfolio's total value
MonteCarloCall(syms, expReturns, covMatrix, rt, totalValue) ==
  [weights |-> findOptimalPortfolio(
                 generateEfficientFrontier(expReturns, covMatrix, syms), rt),
   expectedReturns |-> expReturns,
   covarianceMatrix |-> covMatrix,
   initialValue |-> totalValue,
   symbols |-> syms]

McSymbolLists == {<<"AAPL">>, <<"AAPL", "MSFT">>}
TotalValue == Q(100, 1)

\* the simulation of one of the portfolios of one or two assets
McInit ==
  /\ \E syms \in McSymbolLists :
       \E er \in [Range(syms) -> ReturnGrid] :
         \E profile \in VolProfiles, rho \in Correlations :
           mcIn = MonteCarloCall(syms, [s \in Range(syms) |-> Q(er[s], 100)],
                                 CovarianceOf(Len(syms), profile, rho),
                                 "moderate", TotalValue)
  /\ mcPc = "simulate"
  /\ scenario = 0
  /\ day = 0
  /\ portfolioValue = mcIn.initialValue
  /\ results = <<>>
  /\ mcOut = <<>>
  /\ FrontierIdle
  /\ CallIdle
  /\ RequestIdle

\* one round of the loop over the days of a scenario
DayStep ==
  /\ mcPc = "simulate"
  /\ scenario < MONTE_CARLO_SCENARIOS
  /\ day < TRADING_DAYS
  /\ \E independentNormals \in [1..Len(mcIn.symbols) -> NormalDraws] :
       LET correlatedReturns ==
             generateCorrelatedReturnsCholesky(
               mcIn.symbols, mcIn.expectedReturns,
               choleskyDecomposition(mcIn.covarianceMatrix), independentNormals)
           dailyReturn == DailyReturn(mcIn.weights, mcIn.symbols, correlatedReturns,
                                      Len(mcIn.symbols))
       IN portfolioValue' = Mul(portfolioValue, Add(One, dailyReturn))
  /\ day' = day + 1
  /\ UNCHANGED <<mcIn, mcPc, scenario, results, mcOut, fvars, cvars, rvars, svars>>

\* results.push(portfolioValue), and the next scenario starts from initialValue
EndScenario ==
  /\ mcPc = "simulate"
  /\ scenario < MONTE_CARLO_SCENARIOS
  /\ day = TRADING_DAYS
  /\ results' = Append(results, portfolioValue)
  /\ scenario' = scenario + 1
  /\ day' = 0
  /\ portfolioValue' = mcIn.initialValue
  /\ UNCHANGED <<mcIn, mcPc, mcOut, fvars, cvars, rvars, svars>>

\* the sort of the results and the returned summary
Summarize ==
  /\ mcPc = "simulate"
  /\ scenario = MONTE_CARLO_SCENARIOS
  /\ mcOut' = Append(mcOut, MonteCarloSummary(results, mcIn.initialValue))
  /\ mcPc' = "done"
  /\ UNCHANGED <<mcIn, scenario, day, portfolioValue, results, fvars, cvars, rvars, svars>>

\* the simulation is called again with the same arguments
CallAgain ==
  /\ mcPc = "done"
  /\ Len(mcOut) = 1
  /\ mcPc' = "simulate"
  /\ scenario' = 0
  /\ day' = 0
  /\ portfolioValue' = mcIn.initialValue
  /\ results' = <<>>
  /\ UNCHANGED <<mcIn, mcOut, fvars, cvars, rvars, svars>>

McNext == DayStep \/ EndScenario \/ Summarize

SpecMC == McInit /\ [][McNext]_vars

\* two simulations of a single-asset portfolio, one after the other
McRepeatInit ==
  /\ McInit
  /\ Len(mcIn.symbols) = 1

McRepeatNext == DayStep \/ EndScenario \/ Summarize \/ CallAgain

SpecMCRepeat == McRepeatInit /\ [][McRepeatNext]_vars

\* C4: two simulations with identical inputs (there is no seed to pass: both
\* use the same random source) return identical percentile values.
C4_RepeatableSimulation ==
  Len(mcOut) = 2 => mcOut[1].confidenceIntervals = mcOut[2].confidenceIntervals

\* C5: in every returned summary percentile_5 <= percentile_25 <=
\* percentile_75 <= percentile_95, and successRate lies in [0, 1].
C5_PercentilesOrdered ==
  \A k \in DOMAIN mcOut :
    LET ci == mcOut[k].confidenceIntervals
    IN /\ Le(ci.percentile_5, ci.percentile_25)
       /\ Le(ci.percentile_25, ci.percentile_75)
       /\ Le(ci.percentile_75, ci.percentile_95)
       /\ Le(Zero, mcOut[k].successRate)
       /\ Le(mcOut[k].successRate, One)

\* the arrangements of res in which no value stands before a smaller one
Arrangements(res) ==
  {[i \in DOMAIN res |-> res[p[i]]] :
     p \in {q \in [DOMAIN res -> DOMAIN res] : \A i, j \in DOMAIN res : i # j => q[i] # q[j]}}
Ascending(res) ==
  {sorted \in Arrangements(res) :
     \A i, j \in DOMAIN sorted : i < j => ~Gt(sorted[i], sorted[j])}

RECURSIVE Power(_, _)
Power(x, k) == IF k = 0 THEN One ELSE Mul(Power(x, k - 1), x)

\* the value at index floor(p * S) of sorted, the index counted from 0
AtFraction(sorted, num, den) == sorted[((num * Len(sorted)) \div den) + 1]

DailyReturnsInit ==
  /\ fn = "generateCorrelatedReturnsCholesky"
  /\ \E syms \in McSymbolLists :
       \E er \in [Range(syms) -> ReturnGrid] :
         \E profile \in VolProfiles, rho \in Correlations :
           args = [symbols |-> syms,
                   expectedReturns |-> [s \in Range(syms) |-> Q(er[s], 100)],
                   covarianceMatrix |-> CovarianceOf(Len(syms), profile, rho)]
  /\ result = <<>>
  /\ FrontierIdle
  /\ McIdle
  /\ RequestIdle

\* the function draws its independent normals and returns the day's returns
CallDailyReturns ==
  /\ fn = "generateCorrelatedReturnsCholesky"
  /\ result = <<>>
  /\ \E independentNormals \in [1..Len(args.symbols) -> NormalDraws] :
       result' = <<[independentNormals |-> independentNormals,
                    correlatedReturns |->
                      generateCorrelatedReturnsCholesky(
                        args.symbols, args.expectedReturns,
                        choleskyDecomposition(args.covarianceMatrix),
                        independentNormals)]>>
  /\ UNCHANGED <<fn, args, fvars, mvars, rvars, svars>>

SpecDailyReturns == DailyReturnsInit /\ [][CallDailyReturns]_vars

\* C20: asset i's daily return is annualReturn_i / T plus its correlated
\* shock (row i of L times the independent normals) scaled by the per-day
\* volatility sqrt(Sigma_ii / T), Sigma_ii being the i-th diagonal entry of the
\* annualized covariance matrix.
C20_DailyReturnFormula ==
  (fn = "generateCorrelatedReturnsCholesky" /\ result # <<>>) =>
    LET L == choleskyDecomposition(args.covarianceMatrix)
        z == result[1].independentNormals
        T == Q(TRADING_DAYS, 1)
    IN \A i \in DOMAIN args.symbols :
         result[1].correlatedReturns[i] =
           Add(Div(args.expectedReturns[args.symbols[i]], T),
               Mul(CholeskyTransform(L, z, i, i),
                   Sqrt(Div(args.covarianceMatrix[i][i], T))))
(***************************************************************************)
(* twoAssetOptimization, called on its own                                 *)
(***************************************************************************)
\* expected returns and target returns are drawn in units of 5e-7 (200000 is
\* 10%)
Rate(u) == Q(u, 2000000)
TwoAssetReturns == {-400000, 100000, 200000}
\* pairs (r1, r2): the pairs of the grid, and pairs that differ by 1e-6 and by
\* 5e-7
TwoAssetReturnPairs ==
  (TwoAssetReturns \X TwoAssetReturns)
    \cup {<<200002, 200000>>, <<200000, 200002>>, <<200001, 200000>>}
TwoAssetTargets == {-600000, 0, 100000, 150000, 200000, 200001, 200002, 400000}
TwoAssetSymbols == <<"AAPL", "MSFT">>

TwoAssetInit ==
  /\ fn = "twoAssetOptimization"
  /\ \E r \in TwoAssetReturnPairs, t \in TwoAssetTargets :
       \E profile \in VolProfiles, rho \in Correlations :
         args = [expectedReturns |-> ("AAPL" :> Rate(r[1])) @@
                                     ("MSFT" :> Rate(r[2])),
                 covarianceMatrix |-> CovarianceOf(2, profile, rho),
                 symbols |-> TwoAssetSymbols,
                 targetReturn |-> Rate(t)]
  /\ result = <<>>
  /\ FrontierIdle
  /\ McIdle
  /\ RequestIdle

CallTwoAsset ==
  /\ fn = "twoAssetOptimization"
  /\ result = <<>>
  /\ result' = <<twoAssetOptimization(args.expectedReturns, args.covarianceMatrix,
                                      args.symbols, args.targetReturn)>>
  /\ UNCHANGED <<fn, args, fvars, mvars, rvars, svars>>

SpecTwoAsset == TwoAssetInit /\ [][CallTwoAsset]_vars

\* C7: when r1 and r2 differ by at least 1e-6, a target between them gives
\* w1 = (target - r2)/(r1 - r2), w2 = 1 - w1 and weighted return = target; a
\* target outside them gives w1 in {0, 1}; r1 = 10%, r2 = 5%, target 7.5% gives
\* 0.5 and 0.5 - whatever the covariance matrix.
C7_TwoAssetClosedForm ==
  (fn = "twoAssetOptimization" /\ result # <<>>) =>
    LET r1 == args.expectedReturns["AAPL"]
        r2 == args.expectedReturns["MSFT"]
        t == args.targetReturn
        w1 == result[1]["AAPL"]
        w2 == result[1]["MSFT"]
        between == Le(Min(r1, r2), t) /\ Le(t, Max(r1, r2))
    IN Ge(Abs(Sub(r1, r2)), Q(1, 1000000)) =>
         /\ w2 = Sub(One, w1)
         /\ between => /\ w1 = Div(Sub(t, r2), Sub(r1, r2))
                       /\ Add(Mul(w1, r1), Mul(w2, r2)) = t
         /\ ~between => w1 \in {Zero, One}
         /\ (r1 = Q(10, 100) /\ r2 = Q(5, 100) /\ t = Q(75, 1000)) =>
              (w1 = Q(1, 2) /\ w2 = Q(1, 2))

\* the closed form has been applied to r1 = 10%, r2 = 5%, target 7.5% with
\* correlated assets of different volatility, and has returned the midpoint
C7_Witness ==
  /\ fn = "twoAssetOptimization"
  /\ result # <<>>
  /\ args.expectedReturns = ("AAPL" :> Q(10, 100)) @@ ("MSFT" :> Q(5, 100))
  /\ args.targetReturn = Q(75, 1000)
  /\ args.covarianceMatrix = CovarianceOf(2, "rising", 1)
  /\ result[1] = ("AAPL" :> Q(1, 2)) @@ ("MSFT" :> Q(1, 2))

\* C27: when |r1 - r2| < 1e-6 the minimum-variance weight is used:
\* w1 = (var2 - cov12) / (var1 + var2 - 2 cov12) clipped to [0, 1] and
\* w2 = 1 - w1; the pair is valid (both weights numbers in [0, 1] that sum to
\* 1) also when var1 + var2 - 2 cov12 = 0.
C27_EqualReturnMinimumVariance ==
  (fn = "twoAssetOptimization" /\ result # <<>>) =>
    LET r1 == args.expectedReturns["AAPL"]
        r2 == args.expectedReturns["MSFT"]
        var1 == args.covarianceMatrix[1][1]
        var2 == args.covarianceMatrix[2][2]
        cov12 == args.covarianceMatrix[1][2]
        C == Sub(Sub(Add(var1, var2), cov12), cov12)
        w1 == result[1]["AAPL"]
        w2 == result[1]["MSFT"]
    IN Lt(Abs(Sub(r1, r2)), Q(1, 1000000)) =>
         /\ C # Zero =>
              LET ratio == Div(Sub(var2, cov12), C)
              IN w1 = IF Lt(ratio, Zero) THEN Zero
                      ELSE IF Gt(ratio, One) THEN One ELSE ratio
         /\ w2 = Sub(One, w1)
         /\ Ge(w1, Zero) /\ Le(w1, One)
         /\ Ge(w2, Zero) /\ Le(w2, One)
         /\ Add(w1, w2) = One

(***************************************************************************)
(* calculateExpectedReturns and calculateCovarianceMatrix                  *)
(***************************************************************************)
\* returns.reduce((sum, r) => sum + r, 0) / returns.length, annualized
calculateExpectedReturns(historicalData) ==
  [s \in {historicalData[i].symbol : i \in DOMAIN historicalData} |->
     LET i == CHOOSE i \in DOMAIN historicalData :
                /\ historicalData[i].symbol = s
                /\ \A j \in DOMAIN historicalData :
                     historicalData[j].symbol = s => j <= i
         returns == historicalData[i].returns
         meanReturn == Div(SumSeq(returns, Len(returns)), Q(Len(returns), 1))
     IN Mul(meanReturn, Q(TRADING_DAYS, 1))]

\* covariance += (r1[i] - mean1) * (r2[i] - mean2) for the first i elements
CovarianceSum(r1, r2, mean1, mean2, i) ==
  SumSeq([k \in 1..i |-> Mul(Sub(r1[k], mean1), Sub(r2[k], mean2))], i)

calculateCovariance(returns1, returns2) ==
  LET minLength == IF Len(returns1) < Len(returns2) THEN Len(returns1)
                   ELSE Len(returns2)
      r1 == SubSeq(returns1, 1, minLength)
      r2 == SubSeq(returns2, 1, minLength)
      mean1 == Div(SumSeq(r1, minLength), Q(minLength, 1))
      mean2 == Div(SumSeq(r2, minLength), Q(minLength, 1))
  IN Div(CovarianceSum(r1, r2, mean1, mean2, minLength), Q(minLength - 1, 1))

calculateCovarianceMatrix(historicalData) ==
  [i \in DOMAIN historicalData |->
     [j \in DOMAIN historicalData |->
        Mul(calculateCovariance(historicalData[i].returns,
                                historicalData[j].returns),
            Q(TRADING_DAYS, 1))]]

\* longest return series of the covariance inputs
MaxReturns == 3
\* daily returns, in percent
DailyReturnGrid == {-10, 0, 10}

\* the return series of up to MaxReturns daily returns
ReturnSeries ==
  UNION {[1..len -> {Q(r, 100) : r \in DailyReturnGrid}] : len \in 1..MaxReturns}

CovarianceInit ==
  /\ fn = "calculateCovarianceMatrix"
  /\ \E syms \in McSymbolLists :
       \E series \in [1..Len(syms) -> ReturnSeries] :
         args = [i \in 1..Len(syms) |-> [symbol |-> syms[i], returns |-> series[i]]]
  /\ result = <<>>
  /\ FrontierIdle
  /\ McIdle
  /\ RequestIdle

CallCovariance ==
  /\ fn = "calculateCovarianceMatrix"
  /\ result = <<>>
  /\ result' = <<calculateCovarianceMatrix(args)>>
  /\ UNCHANGED <<fn, args, fvars, mvars, rvars, svars>>

SpecCovariance == CovarianceInit /\ [][CallCovariance]_vars

\* x == y for JavaScript numbers
NumEq(x, y) == ~IsNaN(x) /\ ~IsNaN(y) /\ x = y

\* C6: the matrix calculateCovarianceMatrix returns is symmetric and its
\* diagonal is non-negative, for series of equal or different lengths.
C6_CovarianceSymmetric ==
  (fn = "calculateCovarianceMatrix" /\ result # <<>>) =>
    LET M == result[1]
    IN \A i \in DOMAIN M :
         /\ Ge(M[i][i], Zero)
         /\ \A j \in DOMAIN M : NumEq(M[i][j], M[j][i])

\* the mean of the first n elements of r
MeanOfFirst(r, n) == Div(SumSeq(r, n), Q(n, 1))

\* 252 * sum_k (ri[k] - mean_i)(rj[k] - mean_j) / (n - 1) over the first n
\* elements of both series, 252 being the trading days of the model
SampleCovariance(ri, rj, n) ==
  Div(Mul(Q(TRADING_DAYS, 1),
          SumSeq([k \in 1..n |-> Mul(Sub(ri[k], MeanOfFirst(ri, n)),
                                     Sub(rj[k], MeanOfFirst(rj, n)))], n)),
      Q(n - 1, 1))

\* C23: M[i][j] is the annualized sample covariance of the two return series
\* truncated to their shared minimum length, the means taken over the
\* truncated series; M[i][i] is the annualized sample variance of series i
\* over its full length; a single asset yields a well-defined 1x1 matrix.
C23_CovarianceEstimate ==
  (fn = "calculateCovarianceMatrix" /\ result # <<>>) =>
    LET M == result[1]
    IN /\ Len(M) = Len(args)
       /\ \A i \in DOMAIN args : \A j \in DOMAIN args :
            LET ri == args[i].returns
                rj == args[j].returns
                n == IF Len(ri) < Len(rj) THEN Len(ri) ELSE Len(rj)
            IN M[i][j] = SampleCovariance(ri, rj, n)
       /\ \A i \in DOMAIN args :
            M[i][i] = SampleCovariance(args[i].returns, args[i].returns,
                                       Len(args[i].returns))
       /\ Len(args) = 1 => (Len(M[1]) = 1 /\ IsFinite(M[1][1]))
(***************************************************************************)
(* generateRebalanceRecommendations                                        *)
(***************************************************************************)
\* Math.round: the nearest integer, a tie rounded up
Round(x) == IF IsFinite(x) THEN Q((2 * x.n + x.d) \div (2 * x.d), 1) ELSE x

\* Math.round(x * 100) / 100
RoundCents(x) == Div(Round(Mul(x, Q(100, 1))), Q(100, 1))

\* Math.round(x * 10000) / 100: a fraction as a percentage with two decimals
RoundPercent(x) == Div(Round(Mul(x, Q(10000, 1))), Q(100, 1))

\* x || 0: zero for 0, NaN and undefined
OrZero(x) == IF IsNaN(x) THEN Zero ELSE x

\* |targetWeight - currentWeight| of a recommendation, the key of the sort
ReportedGap(rec) == Abs(Sub(rec.targetWeight, rec.currentWeight))

RECURSIVE InsertByGapAscending(_, _)
\* the insertion of a sort whose comparator is (a, b) => gap(a) - gap(b)
InsertByGapAscending(s, rec) ==
  IF s = <<>> THEN <<rec>>
  ELSE IF Lt(Sub(ReportedGap(rec), ReportedGap(s[Len(s)])), Zero)
       THEN Append(InsertByGapAscending(SubSeq(s, 1, Len(s) - 1), rec), s[Len(s)])
       ELSE Append(s, rec)

RECURSIVE InsertByGap(_, _)
\* rec placed into the sorted sequence s behind every element that the
\* comparator (a, b) => gap(b) - gap(a) does not order after it
InsertByGap(s, rec) ==
  IF s = <<>> THEN <<rec>>
  ELSE IF Gt(Sub(ReportedGap(rec), ReportedGap(s[Len(s)])), Zero)
       THEN Append(InsertByGap(SubSeq(s, 1, Len(s) - 1), rec), s[Len(s)])
       ELSE Append(s, rec)

RECURSIVE SortByGap(_)
SortByGap(s) ==
  IF s = <<>> THEN <<>>
  ELSE InsertByGap(SortByGap(SubSeq(s, 1, Len(s) - 1)), s[Len(s)])

\* a threshold test that also lets a difference of exactly 0.01 through
ReachesThreshold(difference) == Ge(Abs(difference), Q(1, 100))

\* Math.abs(difference) > 0.01
ExceedsThreshold(difference) == Gt(Abs(difference), Q(1, 100))

RECURSIVE Recommendations(_, _, _, _, _)
\* the list after the loop has visited the first i symbols
Recommendations(currentWeights, optWeights, totalValue, syms, i) ==
  IF i = 0 THEN <<>>
  ELSE LET prev == Recommendations(currentWeights, optWeights, totalValue,
                                   syms, i - 1)
           currentWeight == OrZero(Get(currentWeights, syms[i]))
           targetWeight == OrZero(Get(optWeights, syms[i]))
           difference == Sub(targetWeight, currentWeight)
           amount == Abs(Mul(difference, totalValue))
       IN IF ExceedsThreshold(difference)
          THEN Append(prev,
                      [symbol |-> syms[i],
                       currentWeight |-> RoundPercent(currentWeight),
                       targetWeight |-> RoundPercent(targetWeight),
                       action |-> IF Gt(difference, Zero) THEN "BUY" ELSE "SELL",
                       amount |-> RoundCents(amount)])
          ELSE prev

generateRebalanceRecommendations(currentWeights, optWeights, totalValue, syms) ==
  SortByGap(Recommendations(currentWeights, optWeights, totalValue, syms,
                            Len(syms)))

\* current weights quantity * averageCost / totalValue of the holdings
CurrentWeightGrid == {Zero, Q(2, 5), Q(3, 5)}
\* optimal weights: fractions, a weight outside [0, 1] and a NaN weight, as the
\* frontier builder returns them
OptimalWeightGrid == {Zero, Q(1, 3), Q(2, 5), Q(41, 100), Q(3, 5), Q(11, 9), NaN}
TotalValues == {Q(100000, 1), Q(1, 1)}

RebalanceInit ==
  /\ fn = "generateRebalanceRecommendations"
  /\ \E syms \in McSymbolLists :
       \E cw \in [Range(syms) -> CurrentWeightGrid],
          ow \in [Range(syms) -> OptimalWeightGrid],
          tv \in TotalValues :
         args = [currentWeights |-> cw, optimalWeights |-> ow,
                 totalValue |-> tv, symbols |-> syms]
  /\ result = <<>>
  /\ FrontierIdle
  /\ McIdle
  /\ RequestIdle

CallRebalance ==
  /\ fn = "generateRebalanceRecommendations"
  /\ result = <<>>
  /\ result' = <<generateRebalanceRecommendations(
                   args.currentWeights, args.optimalWeights, args.totalValue,
                   args.symbols)>>
  /\ UNCHANGED <<fn, args, fvars, mvars, rvars, svars>>

SpecRebalance == RebalanceInit /\ [][CallRebalance]_vars

\* the recommendations for symbol s follow the claim's rule, the amount being
\* |delta| * totalValue, rounded to two decimals or as it is
RebalanceRule(s, rounded) ==
  LET recs == result[1]
      delta == Sub(args.optimalWeights[s], args.currentWeights[s])
      amount == Mul(Abs(delta), args.totalValue)
      acts == {k \in DOMAIN recs : recs[k].symbol = s}
  IN /\ Gt(Abs(delta), Q(1, 100)) =>
          /\ Cardinality(acts) = 1
          /\ \A k \in acts :
               /\ recs[k].action = IF Gt(delta, Zero) THEN "BUY" ELSE "SELL"
               /\ recs[k].amount = IF rounded THEN RoundCents(amount) ELSE amount
     /\ Le(Abs(delta), Q(1, 100)) => acts = {}

C19_SortedByGap ==
  (fn = "generateRebalanceRecommendations" /\ result # <<>>) =>
    \A k \in 1..(Len(result[1]) - 1) :
      Ge(Abs(Sub(result[1][k].targetWeight, result[1][k].currentWeight)),
         Abs(Sub(result[1][k + 1].targetWeight, result[1][k + 1].currentWeight)))

\* two recommendations have been returned in the reverse of the order of the
\* symbols, the larger gap first
C19_Witness ==
  /\ fn = "generateRebalanceRecommendations"
  /\ result # <<>>
  /\ args.symbols = <<"AAPL", "MSFT">>
  /\ Len(result[1]) = 2
  /\ result[1][1].symbol = "MSFT"
  /\ result[1][2].symbol = "AAPL"
  /\ Gt(Abs(Sub(result[1][1].targetWeight, result[1][1].currentWeight)),
        Abs(Sub(result[1][2].targetWeight, result[1][2].currentWeight)))
(***************************************************************************)
(* calculateAdvancedRiskMetrics                                            *)
(***************************************************************************)
\* calculateMaxDrawdown returns 0 for series shorter than this
MinDrawdownLength == 20

\* getZScore(0.05), and phi(getZScore(0.05)) / 0.05 of calculateConditionalVaR,
\* to four decimals
ZScore05 == Q(-16452, 10000)
PhiOverConfidence05 == Q(20615, 10000)

RECURSIVE KeysUpTo(_, _, _)
\* the keys of weights among the first i symbols of historicalData, each once,
\* in the order of their first appearance
KeysUpTo(weights, historicalData, i) ==
  IF i = 0 THEN <<>>
  ELSE LET prev == KeysUpTo(weights, historicalData, i - 1)
           s == historicalData[i].symbol
       IN IF s \in DOMAIN weights /\ s \notin Range(prev)
          THEN Append(prev, s) ELSE prev

\* the symbols that are canonical array indices ("7203" is index 7203), which
\* an object enumerates before its other keys
ArrayIndexOf == ("7203" :> 7203) @@ ("9984" :> 9984)

RECURSIVE AscendingIndexKeys(_)
\* the array-index keys of the set S in ascending numeric order
AscendingIndexKeys(S) ==
  IF S = {} THEN <<>>
  ELSE LET least == CHOOSE s \in S : \A t \in S : ArrayIndexOf[s] <= ArrayIndexOf[t]
       IN <<least>> \o AscendingIndexKeys(S \ {least})

\* Object.keys(weights): the array-index keys in ascending numeric order, then
\* the other keys in insertion order, which is the order of the holdings and
\* so of historicalData
ObjectKeys(weights, historicalData) ==
  LET inserted == KeysUpTo(weights, historicalData, Len(historicalData))
  IN AscendingIndexKeys(Range(inserted) \cap DOMAIN ArrayIndexOf)
       \o SelectSeq(inserted, LAMBDA s : s \notin DOMAIN ArrayIndexOf)

RECURSIVE MinLengthUpTo(_, _)
\* Math.min(...historicalData.map((data) => data.returns.length)) over the
\* first i series (i >= 1)
MinLengthUpTo(historicalData, i) ==
  IF i = 1 THEN Len(historicalData[1].returns)
  ELSE LET m == MinLengthUpTo(historicalData, i - 1)
           l == Len(historicalData[i].returns)
       IN IF l < m THEN l ELSE m

RECURSIVE ReplayReturn(_, _, _, _, _)
\* dailyReturn of day d after the first i keys
ReplayReturn(weights, historicalData, keys, d, i) ==
  IF i = 0 THEN Zero
  ELSE LET prev == ReplayReturn(weights, historicalData, keys, d, i - 1)
           found == {x \in DOMAIN historicalData :
                       historicalData[x].symbol = keys[i]}
       IN IF found = {} THEN prev
          ELSE LET dataIndex == CHOOSE x \in found : \A y \in found : x <= y
               IN IF d <= Len(historicalData[dataIndex].returns)
                  THEN Add(prev, Mul(weights[keys[i]],
                                     historicalData[dataIndex].returns[d]))
                  ELSE prev

RECURSIVE ProductRange(_, _, _)
\* s[lo] * ... * s[hi], multiplied by halves
ProductRange(s, lo, hi) ==
  IF lo > hi THEN One
  ELSE IF lo = hi THEN s[lo]
  ELSE LET mid == (lo + hi) \div 2
       IN Mul(ProductRange(s, lo, mid), ProductRange(s, mid + 1, hi))

RECURSIVE MaxRange(_, _, _)
\* Math.max over s[lo..hi], by halves (NaN if any element is NaN)
MaxRange(s, lo, hi) ==
  IF lo = hi THEN s[lo]
  ELSE LET mid == (lo + hi) \div 2
       IN Max(MaxRange(s, lo, mid), MaxRange(s, mid + 1, hi))

\* maxDrawdown after the loop over the first days portfolio returns:
\* cumulativeValue after day d is the product of 1 + dailyReturn up to d,
\* maxValue the largest of 1 and the cumulative values so far, and maxDrawdown
\* the largest of 0 and the drawdowns so far
DrawdownAfter(weights, historicalData, keys, days) ==
  LET growth == [d \in 1..days |->
                   Add(One, ReplayReturn(weights, historicalData, keys, d, Len(keys)))]
      cumulativeValue == [d \in 1..days |-> Mul(One, ProductRange(growth, 1, d))]
      maxValue == [d \in 1..days |-> Max(One, MaxRange(cumulativeValue, 1, d))]
      drawdown == [d \in 1..days |->
                     Div(Sub(maxValue[d], cumulativeValue[d]), maxValue[d])]
  IN IF days = 0 THEN Zero ELSE Max(Zero, MaxRange(drawdown, 1, days))

calculateMaxDrawdown(weights, historicalData) ==
  LET minLength == MinLengthUpTo(historicalData, Len(historicalData))
  IN IF minLength < MinDrawdownLength THEN Zero
     ELSE DrawdownAfter(weights, historicalData,
                        ObjectKeys(weights, historicalData), minLength)

\* expectedReturn + zScore * volatility
calculateVaR(expectedReturn, volatility) ==
  Add(expectedReturn, Mul(ZScore05, volatility))

\* expectedReturn - (phi / confidenceLevel) * volatility
calculateConditionalVaR(expectedReturn, volatility) ==
  Sub(expectedReturn, Mul(PhiOverConfidence05, volatility))

\* a Sharpe ratio without the guard on the volatility
UnguardedSharpe(expectedReturn, volatility) ==
  Div(Sub(expectedReturn, RISK_FREE_RATE), volatility)

\* volatility > 0 ? (expectedReturn - RISK_FREE_RATE) / volatility : 0
SharpeRatio(expectedReturn, volatility) ==
  IF Gt(volatility, Zero)
  THEN Div(Sub(expectedReturn, RISK_FREE_RATE), volatility)
  ELSE Zero

calculateAdvancedRiskMetrics(weights, expReturns, covMatrix, historicalData) ==
  LET keys == ObjectKeys(weights, historicalData)
      expectedReturn == calculatePortfolioReturn(weights, expReturns)
      variance == calculatePortfolioVariance(weights, covMatrix, keys)
      volatility == Sqrt(variance)
      sharpeRatio == SharpeRatio(expectedReturn, volatility)
      maxDrawdown == calculateMaxDrawdown(weights, historicalData)
      valueAtRisk == calculateVaR(expectedReturn, volatility)
      conditionalVaR == calculateConditionalVaR(expectedReturn, volatility)
  IN [expectedReturn |-> RoundPercent(expectedReturn),
      volatility |-> RoundPercent(volatility),
      sharpeRatio |-> RoundCents(sharpeRatio),
      maxDrawdown |-> RoundPercent(maxDrawdown),
      valueAtRisk |-> RoundPercent(Abs(valueAtRisk)),
      conditionalVaR |-> RoundPercent(Abs(conditionalVaR))]

\* daily return series of the risk-metric inputs: two constant series (assets
\* of zero variance), two varying series, and two series long enough for the
\* drawdown replay, one constant and one that gains 100%, loses 50% and then
\* stays flat
RiskSeries ==
  {<<Zero, Zero>>,
   <<Q(1, 100), Q(1, 100)>>,
   <<Q(-1, 10), Q(1, 10)>>,
   <<Q(1, 10), Q(3, 10)>>,
   [d \in 1..MinDrawdownLength |-> Zero],
   [d \in 1..MinDrawdownLength |->
      IF d = 1 THEN One ELSE IF d = 2 THEN Q(-1, 2) ELSE Zero]}

\* the arguments optimizePortfolio passes: the optimal weights it has selected
\* for the returns and covariances estimated from the historical data
RiskMetricsCall(historicalData, rt) ==
  LET expReturns == calculateExpectedReturns(historicalData)
      covMatrix == calculateCovarianceMatrix(historicalData)
      syms == [i \in DOMAIN historicalData |-> historicalData[i].symbol]
  IN [weights |-> findOptimalPortfolio(
                    generateEfficientFrontier(expReturns, covMatrix, syms), rt),
      expectedReturns |-> expReturns,
      covarianceMatrix |-> covMatrix,
      historicalData |-> historicalData]

RiskMetricsInit ==
  /\ fn = "calculateAdvancedRiskMetrics"
  /\ \E syms \in McSymbolLists :
       \E series \in [1..Len(syms) -> RiskSeries], rt \in RiskTolerances :
         args = RiskMetricsCall(
                  [i \in 1..Len(syms) |-> [symbol |-> syms[i], returns |-> series[i]]],
                  rt)
  /\ result = <<>>
  /\ FrontierIdle
  /\ McIdle
  /\ RequestIdle

CallRiskMetrics ==
  /\ fn = "calculateAdvancedRiskMetrics"
  /\ result = <<>>
  /\ result' = <<calculateAdvancedRiskMetrics(
                   args.weights, args.expectedReturns, args.covarianceMatrix,
                   args.historicalData)>>
  /\ UNCHANGED <<fn, args, fvars, mvars, rvars, svars>>

SpecRiskMetrics == RiskMetricsInit /\ [][CallRiskMetrics]_vars

\* the portfolio volatility sqrt(w' Sigma w) of the call
CallVolatility ==
  Sqrt(calculatePortfolioVariance(
         args.weights, args.covarianceMatrix,
         ObjectKeys(args.weights, args.historicalData)))

WeightedReturn(d) ==
  SumSeq([i \in DOMAIN args.historicalData |->
            Mul(args.weights[args.historicalData[i].symbol],
                args.historicalData[i].returns[d])],
         Len(args.historicalData))

\* the shortest return-series length of the call
ShortestLength ==
  CHOOSE l \in {Len(args.historicalData[i].returns) : i \in DOMAIN args.historicalData} :
    \A i \in DOMAIN args.historicalData : l <= Len(args.historicalData[i].returns)

\* one day of the replay: the value compounds, the peak follows it upwards
\* and the worst proportional decline from the peak is kept
ReplayDay(before, dailyReturn) ==
  LET value == Mul(before.value, Add(One, dailyReturn))
      peak == Max(before.peak, value)
  IN [value |-> value, peak |-> peak,
      worst |-> Max(before.worst, Div(Sub(peak, value), peak))]

RECURSIVE ReplayTrace(_, _)
\* the replay day by day up to the given day, the start (value 1, peak 1)
\* first
ReplayTrace(trace, days) ==
  IF Len(trace) > days THEN trace
  ELSE CHOOSE t \in {ReplayTrace(next, days) :
                       next \in {Append(trace, ReplayDay(last, WeightedReturn(Len(trace)))) :
                                   last \in {trace[Len(trace)]}}} : TRUE

\* the replay of the first ShortestLength days of the call
Replay == ReplayTrace(<<[value |-> One, peak |-> One, worst |-> Zero]>>, ShortestLength)

\* what C25 lists, for the replay of the call
DrawdownOfReplay ==
  LET trace == Replay
      maxDrawdown == calculateMaxDrawdown(args.weights, args.historicalData)
  IN /\ maxDrawdown = trace[Len(trace)].worst
     /\ \A d \in DOMAIN trace : Le(Div(Sub(trace[d].peak, trace[d].value), trace[d].peak),
                                    maxDrawdown)
     /\ Ge(maxDrawdown, Zero)
     /\ \A d \in 2..Len(trace) : Ge(trace[d].peak, trace[d - 1].peak)
     /\ (\A d \in DOMAIN trace : Ge(trace[d].value, trace[d].peak)) => maxDrawdown = Zero
     /\ result[1].maxDrawdown = RoundPercent(maxDrawdown)

\* C25: calculateMaxDrawdown replays the first L daily returns of every
\* asset, L being the shortest return-series length, combines them each day
\* as sum_s w_s * r_s[day], compounds a value from 1 with a running peak from
\* 1 and returns the largest (peak - value) / peak; the result is >= 0, the
\* peak never decreases and the result is 0 when the value never falls below
\* the peak.
C25_DrawdownReplay ==
  (fn = "calculateAdvancedRiskMetrics" /\ result # <<>>) => DrawdownOfReplay

\* holdings lists whose symbols are array indices or are repeated, and two
\* lists that an object enumerates in the order of the holdings
OrderingSymbolLists ==
  {<<"MSFT", "7203">>, <<"9984", "7203">>, <<"AAPL", "AAPL">>,
   <<"7203", "MSFT">>, <<"AAPL", "MSFT">>}

\* the return series of the ordering calls: the short series of RiskSeries
OrderingSeries == {series \in RiskSeries : Len(series) < MinDrawdownLength}

OrderingInit ==
  /\ fn = "calculateAdvancedRiskMetrics"
  /\ \E syms \in OrderingSymbolLists :
       \E series \in [1..Len(syms) -> OrderingSeries], rt \in RiskTolerances :
         args = RiskMetricsCall(
                  [i \in 1..Len(syms) |-> [symbol |-> syms[i], returns |-> series[i]]],
                  rt)
  /\ result = <<>>
  /\ FrontierIdle
  /\ McIdle
  /\ RequestIdle

SpecOrdering == OrderingInit /\ [][CallRiskMetrics]_vars

\* the symbols of the holdings of the call, in the order of the holdings
HoldingSymbols == [i \in DOMAIN args.historicalData |-> args.historicalData[i].symbol]

\* C28: one fixed asset ordering is used throughout a request: the index i
\* that reads row and column i of the covariance matrix always denotes the
\* i-th holding's symbol, also in calculateAdvancedRiskMetrics, which takes
\* its ordering from the keys of the weight map - for every holdings list,
\* including repeated symbols and integer-like symbols.
C28_FixedAssetOrdering ==
  (fn = "calculateAdvancedRiskMetrics" /\ result # <<>>) =>
    /\ ObjectKeys(args.weights, args.historicalData) = HoldingSymbols
    /\ result[1].volatility =
         RoundPercent(Sqrt(calculatePortfolioVariance(
                             args.weights, args.covarianceMatrix, HoldingSymbols)))

(***************************************************************************)
(* The optimize-portfolio tool: execute, optimizePortfolio and the         *)
(* retrieval of the historical data through the market data service        *)
(***************************************************************************)
\* The service builds price histories of 252 points; the model of this many.
HISTORICAL_DAYS == 6

RECURSIVE PricesBack(_, _, _)
\* the prices array after round i of the loop "previousPrice = prices[i - 1] /
\* Math.exp(drift + randomShock); prices.unshift(previousPrice)": prices[i - 1]
\* is the last of the i prices the array then holds
PricesBack(currentPrice, growth, i) ==
  IF i = 0 THEN <<currentPrice>>
  ELSE LET prices == PricesBack(currentPrice, growth, i - 1)
       IN <<Div(prices[i], growth[i])>> \o prices

\* days prices ending at currentPrice, the first of them dropped
generateRealisticPriceHistory(currentPrice, growth, days) ==
  LET prices == PricesBack(currentPrice, growth, days - 1)
  IN SubSeq(prices, 2, Len(prices))

calculateReturns(prices) ==
  [i \in 1..(Len(prices) - 1) |->
     Div(Sub(prices[i + 1], prices[i]), prices[i])]

\* the price of the quote the market data service returns
QuotePrice == Q(200, 1)
\* basePrice of generateRealisticHistoricalData
BasePrice == Q(100, 1)

\* the series getRealHistoricalData pushes when fetchHistoricalPrices returns
FetchedSeries(symbol, growth) ==
  LET prices == generateRealisticPriceHistory(QuotePrice, growth, HISTORICAL_DAYS)
  IN [symbol |-> symbol, prices |-> prices, returns |-> calculateReturns(prices)]

generateRealisticHistoricalData(symbol, growth) ==
  LET prices == generateRealisticPriceHistory(BasePrice, growth, HISTORICAL_DAYS)
  IN [symbol |-> symbol, prices |-> prices, returns |-> calculateReturns(prices)]

\* a catch block that leaves the symbol out instead of falling back
SkipOnFailure(historicalData, fallbackData) == historicalData

\* the catch block of getRealHistoricalData
FallbackOnFailure(historicalData, fallbackData) ==
  Append(historicalData, fallbackData)

\* providers of MarketDataService: Yahoo Finance, then Alpha Vantage
NumProviders == 2

\* riskTolerance left out of the context
Absent == "absent"

Holding(symbol) == [symbol |-> symbol, quantity |-> Q(1, 1), averageCost |-> Q(50, 1)]

HoldingLists ==
  {<<>>, <<Holding("AAPL")>>, <<Holding("AAPL"), Holding("MSFT")>>,
   <<Holding("AAPL"), Holding("AAPL")>>}
RequestTotalValues == {Q(-1, 1), Zero, Q(100, 1)}
RequestRiskTolerances == {Absent, "conservative", "aggressive", "reckless"}

\* the inputs of the tool; isArray is Array.isArray(holdings), and holdings
\* that are absent or not an array have no elements
Contexts ==
  {ctx \in [holdings : HoldingLists, isArray : BOOLEAN,
            totalValue : RequestTotalValues,
            riskTolerance : RequestRiskTolerances] :
     ~ctx.isArray => ctx.holdings = <<>>}

\* a validation that forgets totalValue
HoldingsOnlyError(ctx) ==
  IF ~ctx.isArray \/ Len(ctx.holdings) = 0
  THEN "At least one holding is required for portfolio optimization."
  ELSE "none"

\* the error execute throws before it calls optimizePortfolio, "none" if none
InputError(ctx) ==
  IF ~ctx.isArray \/ Len(ctx.holdings) = 0
  THEN "At least one holding is required for portfolio optimization."
  ELSE IF IsNaN(ctx.totalValue) \/ Le(ctx.totalValue, Zero)
       THEN "Valid total portfolio value is required for optimization."
       ELSE "none"

\* const { holdings, totalValue, riskTolerance = "moderate" } = context
RiskToleranceOf(ctx) ==
  IF ctx.riskTolerance = Absent THEN "moderate" ELSE ctx.riskTolerance

\* symbols = holdings.map((h) => h.symbol)
SymbolsOf(holdings) == [i \in DOMAIN holdings |-> holdings[i].symbol]

RECURSIVE calculateCurrentWeights(_, _, _)
\* weights after the loop has visited the first i holdings
calculateCurrentWeights(holdings, totalValue, i) ==
  IF i = 0 THEN EmptyObj
  ELSE Assign(calculateCurrentWeights(holdings, totalValue, i - 1),
              holdings[i].symbol,
              Div(Mul(holdings[i].quantity, holdings[i].averageCost), totalValue))

RECURSIVE ScenarioValue(_, _, _, _, _, _, _)
\* portfolioValue of a scenario after d days, the days' normals being draws[1..d]
ScenarioValue(weights, expReturns, choleskyMatrix, initialValue, syms, draws, d) ==
  IF d = 0 THEN initialValue
  ELSE LET correlatedReturns ==
             generateCorrelatedReturnsCholesky(syms, expReturns, choleskyMatrix,
                                               draws[d])
           dailyReturn == DailyReturn(weights, syms, correlatedReturns, Len(syms))
       IN Mul(ScenarioValue(weights, expReturns, choleskyMatrix, initialValue,
                            syms, draws, d - 1),
              Add(One, dailyReturn))

\* the simulation as a whole, normals[s][d] being the normals of day d of
\* scenario s
runAdvancedMonteCarloSimulation(weights, expReturns, covMatrix, initialValue, syms, normals) ==
  LET choleskyMatrix == choleskyDecomposition(covMatrix)
  IN MonteCarloSummary(
       [s \in 1..MONTE_CARLO_SCENARIOS |->
          ScenarioValue(weights, expReturns, choleskyMatrix, initialValue, syms,
                        normals[s], TRADING_DAYS)],
       initialValue)

\* the normals one simulation of n assets draws
NormalsOf(n) ==
  [1..MONTE_CARLO_SCENARIOS -> [1..TRADING_DAYS -> [1..n -> NormalDraws]]]

\* the values Math.exp(drift + randomShock) takes in the rounds of one
\* generated price history: 1 in every round, or 1/2 in the round of the
\* oldest price the history keeps and 1 in the others
Growths ==
  {[i \in 1..(HISTORICAL_DAYS - 1) |-> One],
   [i \in 1..(HISTORICAL_DAYS - 1) |->
      IF i = HISTORICAL_DAYS - 2 THEN Q(1, 2) ELSE One]}

\* the symbols of the requests
RequestSymbols == {"AAPL", "MSFT"}

\* the series fetchHistoricalPrices and calculateReturns can produce for a
\* quoted symbol, and those generateRealisticHistoricalData can produce
FetchedSeriesOf ==
  {FetchedSeries(symbol, growth) : symbol \in RequestSymbols, growth \in Growths}
FallbackSeriesOf ==
  {generateRealisticHistoricalData(symbol, growth) :
     symbol \in RequestSymbols, growth \in Growths}

\* the symbol the loop of getRealHistoricalData is at
CurrentSymbol == context.holdings[fetchIdx].symbol

RequestInit ==
  /\ context \in Contexts
  /\ reqPc = "ready"
  /\ fetchIdx = 0
  /\ history = <<>>
  /\ estimates = <<>>
  /\ provider = 0
  /\ priceCache = {}
  /\ lookups = <<>>
  /\ outcomes = <<>>
  /\ primaryProvider = 1
  /\ pending = <<>>
  /\ returned = <<>>
  /\ FrontierIdle
  /\ McIdle
  /\ CallIdle

\* execute up to the call of optimizePortfolio: the validation throws, or the
\* request enters getRealHistoricalData
Execute ==
  /\ reqPc = "ready"
  /\ lookups' = Append(lookups, <<>>)
  /\ IF InputError(context) # "none"
     THEN /\ outcomes' = Append(outcomes, [kind |-> "error",
                                           message |-> InputError(context)])
          /\ reqPc' = "failed"
          /\ UNCHANGED <<fetchIdx, history>>
     ELSE /\ reqPc' = "fetch"
          /\ fetchIdx' = 1
          /\ history' = <<>>
          /\ UNCHANGED outcomes
  /\ UNCHANGED <<context, estimates, provider, priceCache, fvars, mvars, cvars, svars>>

\* lookups with one more settled lookup of the running request
Logged(symbol, how) ==
  [lookups EXCEPT ![Len(lookups)] = Append(@, [symbol |-> symbol, outcome |-> how])]

\* one round of the loop of getRealHistoricalData up to the first await that
\* has to wait: fetchHistoricalPrices asks the market data service for the
\* symbol's quote, which the service returns from its cache or asks its primary
\* provider for
StartLookup ==
  /\ reqPc = "fetch"
  /\ fetchIdx <= Len(context.holdings)
  /\ IF CurrentSymbol \in priceCache
     THEN /\ \E series \in FetchedSeriesOf :
               /\ series.symbol = CurrentSymbol
               /\ history' = Append(history, series)
          /\ lookups' = Logged(CurrentSymbol, "cache")
          /\ fetchIdx' = fetchIdx + 1
          /\ UNCHANGED <<reqPc, provider>>
     ELSE /\ provider' = 1
          /\ reqPc' = "await"
          /\ UNCHANGED <<fetchIdx, history, lookups>>
  /\ UNCHANGED <<context, estimates, priceCache, outcomes, fvars, mvars, cvars, svars>>

\* the call marketDataService.getSingleStockPrice(symbol) throws at once: the
\* MarketDataService of the repository defines getStockPrice and no method of
\* the called name.  fetchHistoricalPrices rethrows and the loop falls back.
LookupThrows ==
  /\ reqPc = "fetch"
  /\ fetchIdx <= Len(context.holdings)
  /\ \E fallbackData \in FallbackSeriesOf :
       /\ fallbackData.symbol = CurrentSymbol
       /\ history' = FallbackOnFailure(history, fallbackData)
  /\ lookups' = Logged(CurrentSymbol, "failed")
  /\ fetchIdx' = fetchIdx + 1
  /\ UNCHANGED <<context, reqPc, estimates, provider, priceCache, outcomes,
                 fvars, mvars, cvars, svars>>

\* the awaited provider returns a quote: the service caches it, and the loop
\* pushes the series built from it
ProviderResolves ==
  /\ reqPc = "await"
  /\ priceCache' = priceCache \cup {CurrentSymbol}
  /\ \E series \in FetchedSeriesOf :
       /\ series.symbol = CurrentSymbol
       /\ history' = Append(history, series)
  /\ lookups' = Logged(CurrentSymbol, "provider")
  /\ fetchIdx' = fetchIdx + 1
  /\ provider' = 0
  /\ reqPc' = "fetch"
  /\ UNCHANGED <<context, estimates, outcomes, fvars, mvars, cvars, svars>>

\* the awaited provider fails: the service tries its next provider, and after
\* the last one throws, which fetchHistoricalPrices rethrows and the loop
\* catches
ProviderRejects ==
  /\ reqPc = "await"
  /\ IF provider < NumProviders
     THEN /\ provider' = provider + 1
          /\ UNCHANGED <<reqPc, fetchIdx, history, lookups>>
     ELSE /\ \E fallbackData \in FallbackSeriesOf :
               /\ fallbackData.symbol = CurrentSymbol
               /\ history' = FallbackOnFailure(history, fallbackData)
          /\ lookups' = Logged(CurrentSymbol, "failed")
          /\ fetchIdx' = fetchIdx + 1
          /\ provider' = 0
          /\ reqPc' = "fetch"
  /\ UNCHANGED <<context, estimates, priceCache, outcomes, fvars, mvars, cvars, svars>>

\* getRealHistoricalData returns; steps 2 and 3 of optimizePortfolio: the
\* symbols, the expected returns and the covariance matrix
Estimate ==
  /\ reqPc = "fetch"
  /\ fetchIdx > Len(context.holdings)
  /\ estimates' = [symbols |-> SymbolsOf(context.holdings),
                   expectedReturns |-> calculateExpectedReturns(history),
                   covarianceMatrix |-> calculateCovarianceMatrix(history)]
  /\ reqPc' = "frontier"
  /\ UNCHANGED <<context, fetchIdx, history, provider, priceCache, lookups,
                 outcomes, fvars, mvars, cvars, svars>>

\* step 4 of optimizePortfolio: the efficient frontier
Frontier ==
  /\ reqPc = "frontier"
  /\ estimates' = estimates @@
       [efficientFrontier |->
          generateEfficientFrontier(estimates.expectedReturns,
                                    estimates.covarianceMatrix, estimates.symbols)]
  /\ reqPc' = "select"
  /\ UNCHANGED <<context, fetchIdx, history, provider, priceCache, lookups,
                 outcomes, fvars, mvars, cvars, svars>>

\* step 4 continued: the portfolio of the frontier for the risk tolerance, and
\* the current weights of the holdings
Select ==
  /\ reqPc = "select"
  /\ estimates' = estimates @@
       [optimalWeights |->
          findOptimalPortfolio(estimates.efficientFrontier, RiskToleranceOf(context)),
        currentWeights |->
          calculateCurrentWeights(context.holdings, context.totalValue,
                                  Len(context.holdings))]
  /\ reqPc' = "simulate"
  /\ UNCHANGED <<context, fetchIdx, history, provider, priceCache, lookups,
                 outcomes, fvars, mvars, cvars, svars>>

\* step 5 of optimizePortfolio: the Monte Carlo simulation on its draws
Simulate ==
  /\ reqPc = "simulate"
  /\ \E normals \in NormalsOf(Len(context.holdings)) :
       estimates' = estimates @@
         [monteCarloResults |->
            runAdvancedMonteCarloSimulation(estimates.optimalWeights,
                                            estimates.expectedReturns,
                                            estimates.covarianceMatrix,
                                            context.totalValue, estimates.symbols,
                                            normals)]
  /\ reqPc' = "assess"
  /\ UNCHANGED <<context, fetchIdx, history, provider, priceCache, lookups,
                 outcomes, fvars, mvars, cvars, svars>>

\* steps 6 to 8 of optimizePortfolio, the risk metrics and the rebalancing
\* recommendations, and the return of execute
Compute ==
  /\ reqPc = "assess"
  /\ outcomes' =
       Append(outcomes,
              [kind |-> "result",
               optimization |->
                 [optimalWeights |-> estimates.optimalWeights,
                  efficientFrontier |-> estimates.efficientFrontier,
                  riskMetrics |->
                    calculateAdvancedRiskMetrics(estimates.optimalWeights,
                                                 estimates.expectedReturns,
                                                 estimates.covarianceMatrix, history),
                  monteCarloResults |-> estimates.monteCarloResults,
                  rebalanceRecommendations |->
                    generateRebalanceRecommendations(estimates.currentWeights,
                                                     estimates.optimalWeights,
                                                     context.totalValue,
                                                     estimates.symbols)]])
  /\ reqPc' = "returned"
  /\ UNCHANGED <<context, fetchIdx, history, estimates, provider, priceCache,
                 lookups, fvars, mvars, cvars, svars>>

\* five minutes after it was set, a cache entry is no longer returned
CacheExpires ==
  /\ \E symbol \in priceCache : priceCache' = priceCache \ {symbol}
  /\ UNCHANGED <<context, reqPc, fetchIdx, history, estimates, provider,
                 lookups, outcomes, fvars, mvars, cvars, svars>>

RequestNext ==
  Execute \/ StartLookup \/ LookupThrows \/ ProviderResolves \/ ProviderRejects
    \/ Estimate \/ Frontier \/ Select \/ Simulate \/ Compute \/ CacheExpires

SpecRequest == RequestInit /\ [][RequestNext]_vars

\* getRealHistoricalData alone: the validation and the loop over the symbols
RetrievalNext ==
  Execute \/ StartLookup \/ LookupThrows \/ ProviderResolves \/ ProviderRejects
    \/ CacheExpires

\* the scheduling of the retrieval: the event loop runs every step of the loop
\* that is ready.  A provider's answer is the network's to give: the answers
\* to the lookups of the symbols other than AAPL arrive, the answer to a
\* lookup of AAPL may never arrive.
SpecRetrievalFair ==
  /\ RequestInit
  /\ [][RetrievalNext]_vars
  /\ WF_vars(Execute)
  /\ WF_vars(StartLookup \/ LookupThrows)
  /\ WF_vars((ProviderResolves \/ ProviderRejects) /\ CurrentSymbol # "AAPL")

\* the same request is made again after the first has returned
NextRequest ==
  /\ reqPc = "returned"
  /\ Len(outcomes) = 1
  /\ reqPc' = "ready"
  /\ fetchIdx' = 0
  /\ history' = <<>>
  /\ estimates' = <<>>
  /\ UNCHANGED <<context, provider, priceCache, lookups, outcomes,
                 fvars, mvars, cvars, svars>>

\* a request for a single holding that passes the validation
TwoRequestsInit ==
  /\ RequestInit
  /\ context.isArray
  /\ Len(context.holdings) = 1
  /\ context.totalValue = Q(100, 1)

TwoRequestsNext == RequestNext \/ NextRequest

SpecTwoRequests == TwoRequestsInit /\ [][TwoRequestsNext]_vars

\* the request has not gone past the validation of execute: optimizePortfolio
\* has not been called, no price has been looked up, no series built, and
\* whatever the request has produced is the validation's error
StoppedAtValidation ==
  /\ reqPc \in {"ready", "failed"}
  /\ history = <<>>
  /\ DOMAIN estimates = {}
  /\ provider = 0
  /\ \A r \in DOMAIN lookups : lookups[r] = <<>>
  /\ \A r \in DOMAIN outcomes :
       /\ outcomes[r].kind = "error"
       /\ outcomes[r].message \in
            {"At least one holding is required for portfolio optimization.",
             "Valid total portfolio value is required for optimization."}

\* C13: a request with empty or non-array holdings, or with totalValue <= 0,
\* fails with an error before optimizePortfolio is called: no price fetch, no
\* simulation, no result.
C13_ValidationFirst ==
  (\/ ~context.isArray
   \/ Len(context.holdings) = 0
   \/ Le(context.totalValue, Zero)) => StoppedAtValidation

\* a request with holdings and a negative totalValue has failed with the
\* validation's error
C13_Witness ==
  /\ context.isArray
  /\ Len(context.holdings) = 2
  /\ context.totalValue = Q(-1, 1)
  /\ reqPc = "failed"
  /\ outcomes = <<[kind |-> "error",
                   message |-> "Valid total portfolio value is required for optimization."]>>

\* C14: a request whose riskTolerance is none of conservative, moderate,
\* aggressive, very_aggressive, and is not absent, fails with the validation's
\* error before any computation.
C14_UnknownRiskToleranceRejected ==
  context.riskTolerance \notin
      {Absent, "conservative", "moderate", "aggressive", "very_aggressive"}
    => StoppedAtValidation

\* the request passes the validation of execute
ValidInput ==
  /\ context.isArray
  /\ Len(context.holdings) > 0
  /\ Gt(context.totalValue, Zero)

\* the lookups of the request that is running, or that ran last
CurrentLookups == IF lookups = <<>> THEN <<>> ELSE lookups[Len(lookups)]

\* C15: a failing price fetch is never surfaced by the retrieval step: the
\* step yields one series per symbol, in the order of the input, the series of
\* a symbol whose fetch failed being the synthetic fallback series; the run
\* never ends in an error.
C15_OneSeriesPerSymbol ==
  ValidInput =>
    /\ \A r \in DOMAIN outcomes : outcomes[r].kind = "result"
    /\ reqPc # "failed"
    /\ Len(history) = Len(CurrentLookups)
    /\ Len(history) <= Len(context.holdings)
    /\ reqPc \notin {"ready", "fetch", "await"} => Len(history) = Len(context.holdings)
    /\ \A i \in DOMAIN history :
         /\ history[i].symbol = context.holdings[i].symbol
         /\ Len(history[i].prices) = HISTORICAL_DAYS - 1
         /\ Len(history[i].returns) = HISTORICAL_DAYS - 2
         /\ CurrentLookups[i].outcome = "failed" =>
              history[i] \in FallbackSeriesOf

\* the fetch of AAPL failed at every provider and the fetch of MSFT succeeded:
\* the request returned a result computed on two series, the fallback first
C15_Witness ==
  /\ reqPc = "returned"
  /\ SymbolsOf(context.holdings) = <<"AAPL", "MSFT">>
  /\ Len(history) = 2
  /\ CurrentLookups[1].outcome = "failed"
  /\ CurrentLookups[2].outcome = "provider"
  /\ history[1].prices[HISTORICAL_DAYS - 1] = BasePrice
  /\ history[2].prices[HISTORICAL_DAYS - 1] = QuotePrice
  /\ outcomes[Len(outcomes)].kind = "result"

WellFormed(optimization, syms) ==
  /\ Range(syms) \subseteq DOMAIN optimization.optimalWeights
  /\ \A s \in DOMAIN optimization.optimalWeights :
       IsFinite(optimization.optimalWeights[s])
  /\ Len(optimization.efficientFrontier) > 0
  /\ \A k \in DOMAIN optimization.efficientFrontier :
       LET point == optimization.efficientFrontier[k]
       IN /\ IsFinite(point.risk)
          /\ IsFinite(point.return)
          /\ \A s \in DOMAIN point.weights : IsFinite(point.weights[s])
  /\ \A f \in DOMAIN optimization.riskMetrics :
       IsFinite(optimization.riskMetrics[f])
  /\ IsFinite(optimization.monteCarloResults.successRate)
  /\ IsFinite(optimization.monteCarloResults.expectedFinalValue)
  /\ IsFinite(optimization.monteCarloResults.worstCase)
  /\ IsFinite(optimization.monteCarloResults.bestCase)
  /\ \A k \in DOMAIN optimization.rebalanceRecommendations :
       LET rec == optimization.rebalanceRecommendations[k]
       IN /\ IsFinite(rec.currentWeight)
          /\ IsFinite(rec.targetWeight)
          /\ IsFinite(rec.amount)

\* C18: a call either fails with an error or returns a result whose parts are
\* all populated with finite numbers; a request that repeats a symbol, so that
\* the symbol list is longer than the weight map and the covariance matrix are
\* wide, ends in the error.
C18_ErrorOrWellFormed ==
  \A r \in DOMAIN outcomes :
    outcomes[r].kind = "result" =>
      /\ Cardinality(Range(SymbolsOf(context.holdings))) = Len(context.holdings)
      /\ WellFormed(outcomes[r].optimization, SymbolsOf(context.holdings))

(***************************************************************************)
(* choleskyDecomposition, called on its own                                *)
(***************************************************************************)
\* entries of the symmetric matrices of one and two rows
DiagonalGrid == {Q(-1, 1), Zero, One, Q(4, 1)}
OffDiagonalGrid == {Q(-2, 1), Zero, One, Q(2, 1)}

\* the product G * G^T of a square matrix G
TimesTranspose(G) ==
  [i \in 1..Len(G) |-> [j \in 1..Len(G) |->
     SumSeq([k \in 1..Len(G) |-> Mul(G[i][k], G[j][k])], Len(G))]]

\* lower-triangular factors of three rows with a positive diagonal
FactorGrid ==
  {<<<<Q(a, 1), Zero, Zero>>, <<Q(d, 1), Q(b, 1), Zero>>, <<Q(e, 1), Q(f, 1), Q(c, 1)>>>> :
     a \in {1, 2}, b \in {1, 2}, c \in {1, 2}, d \in {0, 1}, e \in {0, 1}, f \in {0, 1}}

\* symmetric matrices: every matrix of one and two rows over the grids, the
\* positive-definite products of the factors, and matrices of three rows that
\* are singular or indefinite
SymmetricMatrices ==
  {<<<<a>>>> : a \in DiagonalGrid}
    \cup {<<<<a, b>>, <<b, d>>>> : a \in DiagonalGrid, b \in OffDiagonalGrid, d \in DiagonalGrid}
    \cup {TimesTranspose(G) : G \in FactorGrid}
    \cup {<<<<One, One, One>>, <<One, One, One>>, <<One, One, One>>>>,
          <<<<Zero, One, One>>, <<One, One, Zero>>, <<One, Zero, One>>>>,
          <<<<One, Q(2, 1), Zero>>, <<Q(2, 1), One, One>>, <<Zero, One, Q(4, 1)>>>>}

CholeskyInit ==
  /\ fn = "choleskyDecomposition"
  /\ \E matrix \in SymmetricMatrices : args = [matrix |-> matrix]
  /\ result = <<>>
  /\ FrontierIdle
  /\ McIdle
  /\ RequestIdle

\* const choleskyMatrix = this.choleskyDecomposition(covarianceMatrix)
CallCholesky ==
  /\ fn = "choleskyDecomposition"
  /\ result = <<>>
  /\ result' = <<choleskyDecomposition(args.matrix)>>
  /\ UNCHANGED <<fn, args, fvars, mvars, rvars, svars>>

SpecCholesky == CholeskyInit /\ [][CallCholesky]_vars

\* the determinant of the leading k x k block of M, k <= 3
LeadingMinor(M, k) ==
  CASE k = 1 -> M[1][1]
    [] k = 2 -> Sub(Mul(M[1][1], M[2][2]), Mul(M[1][2], M[2][1]))
    [] OTHER ->
         Add(Sub(Mul(M[1][1], Sub(Mul(M[2][2], M[3][3]), Mul(M[2][3], M[3][2]))),
                 Mul(M[1][2], Sub(Mul(M[2][1], M[3][3]), Mul(M[2][3], M[3][1])))),
             Mul(M[1][3], Sub(Mul(M[2][1], M[3][2]), Mul(M[2][2], M[3][1]))))

\* M is positive definite: its leading minors are positive
PositiveDefinite(M) == \A k \in 1..Len(M) : Gt(LeadingMinor(M, k), Zero)

\* sum of L[j][k]^2 for k < j
RowSquares(L, j) == SumSeq([k \in 1..(j - 1) |-> Mul(L[j][k], L[j][k])], j - 1)

\* every square root taken for the diagonal of L is a rational number
ExactPivots(M, L) ==
  \A j \in 1..Len(M) :
    Mul(L[j][j], L[j][j]) = Max(Zero, Sub(M[j][j], RowSquares(L, j)))

\* C21: for a symmetric matrix choleskyDecomposition returns numbers only, a
\* lower-triangular L with the non-negative diagonal
\* L[j][j] = sqrt(max(0, M[j][j] - sum_k L[j][k]^2)); below a pivot that is 0
\* the column is 0; and for a positive-definite matrix L * L^T is the matrix.
C21_CholeskyTotal ==
  (fn = "choleskyDecomposition" /\ result # <<>>) =>
    LET M == args.matrix
        L == result[1]
        n == Len(M)
    IN /\ Len(L) = n
       /\ \A i \in 1..n : Len(L[i]) = n
       /\ \A i \in 1..n : \A j \in 1..n :
            /\ IsFinite(L[i][j])
            /\ j > i => L[i][j] = Zero
            /\ (j < i /\ L[j][j] = Zero) => L[i][j] = Zero
       /\ \A j \in 1..n :
            /\ Ge(L[j][j], Zero)
            /\ L[j][j] = Sqrt(Max(Zero, Sub(M[j][j], RowSquares(L, j))))
       /\ (PositiveDefinite(M) /\ ExactPivots(M, L)) => TimesTranspose(L) = M

\* a matrix that is not positive semi-definite was decomposed: its second
\* pivot is clamped to 0; and a positive-definite matrix of three rows was
\* decomposed
C21_Witness ==
  /\ fn = "choleskyDecomposition"
  /\ result # <<>>
  /\ \/ /\ args.matrix = <<<<One, Q(2, 1)>>, <<Q(2, 1), One>>>>
        /\ result[1] = <<<<One, Zero>>, <<Q(2, 1), Zero>>>>
     \/ /\ args.matrix = <<<<Zero, One, One>>, <<One, One, Zero>>, <<One, Zero, One>>>>
        /\ result[1][2][1] = Zero

(***************************************************************************)
(* generateRealisticPriceHistory and the returns derived from it           *)
(***************************************************************************)

\* the values Math.exp(drift + randomShock) takes: the exponential is
\* positive, above or below 1 with the sign of drift + randomShock
GrowthGrid == {Q(1, 2), One, Q(2, 1)}

\* the current prices of the quotes
CurrentPrices == {Q(100, 1), QuotePrice}

\* the days a history is asked for
HistoryDays == 1..HISTORICAL_DAYS

PriceHistoryInit ==
  /\ fn = "generateRealisticPriceHistory"
  /\ \E currentPrice \in CurrentPrices, days \in HistoryDays :
       \E growth \in [1..(days - 1) -> GrowthGrid] :
         args = [currentPrice |-> currentPrice, growth |-> growth, days |-> days]
  /\ result = <<>>
  /\ FrontierIdle
  /\ McIdle
  /\ RequestIdle

\* const prices = this.generateRealisticPriceHistory(...);
\* const returns = this.calculateReturns(prices)
CallPriceHistory ==
  /\ fn = "generateRealisticPriceHistory"
  /\ result = <<>>
  /\ LET prices == generateRealisticPriceHistory(args.currentPrice, args.growth,
                                                 args.days)
     IN result' = <<[prices |-> prices, returns |-> calculateReturns(prices)]>>
  /\ UNCHANGED <<fn, args, fvars, mvars, rvars, svars>>

SpecPriceHistory == PriceHistoryInit /\ [][CallPriceHistory]_vars

\* C24: generateRealisticPriceHistory(currentPrice, vol, drift, H) returns
\* exactly H prices in chronological order whose last element is
\* currentPrice, all strictly positive, and the return series derived from
\* them has H - 1 elements.
C24_HistoryLength ==
  (fn = "generateRealisticPriceHistory" /\ result # <<>>) =>
    LET prices == result[1].prices
    IN /\ Len(prices) = args.days
       /\ prices[Len(prices)] = args.currentPrice
       /\ \A i \in DOMAIN prices : Gt(prices[i], Zero)
       /\ Len(result[1].returns) = args.days - 1

\* C29: the backward generation forms a chain: every generated price is the
\* price that follows it divided by the exponential drawn for it, the
\* exponentials being drawn from the newest generated price to the oldest.
C29_BackwardChain ==
  (fn = "generateRealisticPriceHistory" /\ result # <<>>) =>
    LET prices == result[1].prices
        n == Len(prices)
    IN \A k \in 1..(n - 1) : prices[k] = Div(prices[k + 1], args.growth[n - k])

(***************************************************************************)
(* MarketDataService: getStockPrice and switchProvider                     *)
(***************************************************************************)

\* this.providers of the constructor, by name
ProviderNames == <<"Yahoo Finance", "Alpha Vantage">>

\* the names switchProvider is called with: the two providers and a name no
\* provider has
SwitchNames == {"Yahoo Finance", "Alpha Vantage", "Bloomberg"}

\* getStockPrice(symbol): a cached quote is returned at once, otherwise
\* this.primaryProvider.fetchPrice(symbol) is awaited
GetStockPrice ==
  /\ reqPc = "idle"
  /\ pending = <<>>
  /\ \E symbol \in RequestSymbols :
       IF symbol \in priceCache
       THEN /\ returned' = <<[symbol |-> symbol, kind |-> "cached", tried |-> <<>>,
                              cache |-> priceCache]>>
            /\ UNCHANGED pending
       ELSE /\ pending' = <<[symbol |-> symbol, round |-> 0,
                             awaited |-> primaryProvider, tried |-> <<>>]>>
            /\ UNCHANGED returned
  /\ UNCHANGED <<primaryProvider, rvars, fvars, mvars, cvars>>

\* the awaited fetchPrice resolves: this.cache.set(symbol, quote); return quote
FetchResolves ==
  /\ pending # <<>>
  /\ priceCache' = priceCache \cup {pending[1].symbol}
  /\ returned' = <<[symbol |-> pending[1].symbol, kind |-> "quote",
                    tried |-> pending[1].tried, cache |-> priceCache']>>
  /\ pending' = <<>>
  /\ UNCHANGED <<primaryProvider, context, reqPc, fetchIdx, history, estimates,
                 provider, lookups, outcomes, fvars, mvars, cvars>>

\* the awaited fetchPrice rejects: the catch block logs, and the loop
\* "for (let i = 1; i < this.providers.length; i++)" awaits providers[i]; after
\* its last round the service throws 'Failed to fetch price for ... from all
\* providers'.  round is i, 0 while the primary provider is awaited
FetchRejects ==
  /\ pending # <<>>
  /\ LET call == pending[1]
         tried == Append(call.tried, call.awaited)
     IN IF call.round + 1 < NumProviders
        THEN /\ pending' = <<[symbol |-> call.symbol, round |-> call.round + 1,
                              awaited |-> call.round + 2, tried |-> tried]>>
             /\ UNCHANGED returned
        ELSE /\ returned' = <<[symbol |-> call.symbol, kind |-> "error",
                               tried |-> tried, cache |-> priceCache]>>
             /\ pending' = <<>>
  /\ UNCHANGED <<primaryProvider, rvars, fvars, mvars, cvars>>

\* switchProvider(providerName): the provider of that name becomes the
\* primary provider; an unknown name changes nothing
SwitchProvider ==
  /\ reqPc = "idle"
  /\ \E providerName \in SwitchNames :
       LET found == {i \in DOMAIN ProviderNames : ProviderNames[i] = providerName}
       IN IF found # {}
          THEN primaryProvider' = CHOOSE i \in found : \A j \in found : i <= j
          ELSE UNCHANGED primaryProvider
  /\ UNCHANGED <<pending, returned, rvars, fvars, mvars, cvars>>

ServiceInit ==
  /\ FrontierIdle
  /\ McIdle
  /\ CallIdle
  /\ RequestIdle

ServiceNext ==
  \/ GetStockPrice
  \/ FetchResolves
  \/ FetchRejects
  \/ SwitchProvider
  \/ (reqPc = "idle" /\ CacheExpires)

SpecService == ServiceInit /\ [][ServiceNext]_vars

\* C30: for a symbol not in the cache getStockPrice throws 'from all
\* providers' only after every configured provider (Yahoo Finance and Alpha
\* Vantage) has been tried and has failed for that symbol, whichever provider
\* is primary; and on the first provider success the quote is cached and
\* returned without trying further providers.
C30_FallbackExhaustive ==
  returned # <<>> =>
    /\ returned[1].kind = "error" =>
         \A p \in DOMAIN ProviderNames :
           \E k \in DOMAIN returned[1].tried : returned[1].tried[k] = p
    /\ returned[1].kind = "quote" =>
         /\ returned[1].symbol \in returned[1].cache
         /\ Len(returned[1].tried) < NumProviders
====
